---- MODULE Spec2Model ----
(***************************************************************************)
(* A model of the tdraw-tools drawing engine (packages/core): the          *)
(* interaction state machine of engine.ts, the undo/redo stacks of         *)
(* history.ts, the snapshot import/export and the hit testing of           *)
(* geometry.ts.                                                            *)
(*                                                                         *)
(* Numbers.  The code computes in IEEE doubles; the model computes in      *)
(* integers.  Every coordinate, viewport scale and tolerance of the model  *)
(* is an integer, every comparison of pixel distances is made exactly by   *)
(* cross-multiplication, and EPS (1e-9) is below every positive quantity   *)
(* of the model, so Math.max(v, EPS) is v for v >= 1 and "denom < EPS" is  *)
(* "denom = 0".                                                            *)
(***************************************************************************)
EXTENDS Integers, Sequences, FiniteSets, TLC

VARIABLES
  activeTool,     \* state.activeTool
  toolRegistry,   \* toolRegistry: tool id -> ToolDefinition
  opts,           \* opts: EngineOptions
  drawings,       \* state.drawings: the Map's values in insertion order
  selection,      \* state.selection: the Set's elements in insertion order
  primaryId,      \* state.primaryId (NoId for null)
  interaction,    \* state.interaction
  revision,       \* state.revision
  undoStack,      \* history.undoStack
  redoStack,      \* history.redoStack
  lastViewport,   \* lastViewport
  emitQueued,     \* emitQueued
  scheduled,      \* callbacks handed to requestAnimationFrame and not yet run
  queuedReason,   \* queuedReason
  emitted,        \* what subscribers have received: count and last event
  subscribers,    \* subscribers: what each callback does, in insertion order
  received,       \* per subscriber, the revisions of the events it was called with
  nextId,         \* the ids nanoid has handed out so far are 1..nextId-1
  clock,          \* the value Date.now() returns
  call,           \* the last call made on the engine and what it threw
  hitQuery,       \* arguments of a direct call of hitTestEntity
  hitResult       \* its result

engineVars == <<activeTool, toolRegistry, opts, drawings, selection, primaryId,
                interaction, revision, undoStack, redoStack, lastViewport,
                emitQueued, scheduled, queuedReason, emitted, subscribers, received, nextId>>
hitVars == <<hitQuery, hitResult>>
vars == <<activeTool, toolRegistry, opts, drawings, selection, primaryId,
          interaction, revision, undoStack, redoStack, lastViewport,
          emitQueued, scheduled, queuedReason, emitted, subscribers, received, nextId,
          clock, call,
          hitQuery, hitResult>>

----------------------------------------------------------------------------
(* Bounds of the model *)

\* notified calls in one behaviour of Spec
MaxRevision == 3
\* notified calls of an editing session (SpecOps)
MaxOpsRevision == 5
\* notified calls of a selecting session (SpecSelect)
MaxSelectRevision == 6
\* notified calls of a drawing session (SpecDraw)
MaxDrawRevision == 6
\* entities nanoid names in one behaviour
MaxIds == 3
\* Date.now() ranges over 0..MaxClock
MaxClock == 1
\* the historyLimit option the engine is constructed with
HistoryLimit == 2
\* the holdToDrawMs option the engine is constructed with
HoldToDrawMs == 1

(* Program constants *)

HitTolerancePxMouse == 6
HitTolerancePxTouch == 14
HoldMoveTolerancePx == 6
TEXT_BOX_WIDTH_PX == 130
TEXT_BOX_HEIGHT_PX == 44
AltDragOffsetPx == 14
DuplicateOffsetPx == 18
BrushMaxPoints == 5000

NoId == 0

----------------------------------------------------------------------------
(* Generic helpers *)

Abs(n) == IF n < 0 THEN -n ELSE n
Min2(a, b) == IF a <= b THEN a ELSE b
Max2(a, b) == IF a >= b THEN a ELSE b

\* Math.round(n / d) for d > 0: the nearest integer, halves rounded up
RoundDiv(n, d) == (2 * n + d) \div (2 * d)

\* { ...base, ...partial }
Spread(base, partial) ==
  [f \in DOMAIN base |-> IF f \in DOMAIN partial THEN partial[f] ELSE base[f]]

\* an object literal without properties
Empty == [f \in {} |-> TRUE]

Last(s) == s[Len(s)]

SeqToSet(s) == {s[i] : i \in 1..Len(s)}

Contains(s, x) == \E i \in 1..Len(s) : s[i] = x

\* Set.add on an insertion-ordered set
SetAdd(s, x) == IF Contains(s, x) THEN s ELSE Append(s, x)

RECURSIVE SetFrom(_)
\* new Set(list)
SetFrom(list) ==
  IF list = <<>> THEN <<>>
  ELSE SetAdd(SetFrom(SubSeq(list, 1, Len(list) - 1)), Last(list))

Reverse(s) == [i \in 1..Len(s) |-> s[Len(s) + 1 - i]]

----------------------------------------------------------------------------
(* geometry.ts *)

Pt(l, p) == [logical |-> l, price |-> p]

translatePoint(point, delta) ==
  Pt(point.logical + delta.logical, point.price + delta.price)

\* translation that moves the first point only
translateFirstPoint(points, delta) ==
  [i \in 1..Len(points) |-> IF i = 1 THEN translatePoint(points[i], delta) ELSE points[i]]

translatePoints(points, delta) ==
  [i \in 1..Len(points) |-> translatePoint(points[i], delta)]

RECURSIVE GCD(_, _)
GCD(a, b) == IF b = 0 THEN a ELSE GCD(b, a % b)

\* Math.hypot(nx / (den * logicalPerPixel), ny / (den * pricePerPixel)) <= px
\* for den > 0, decided exactly; the two first conjuncts and the common
\* divisor keep the squares within TLC's integers.
WithinPx(nx, ny, den, viewport, px) ==
  LET lim == px * den * viewport.logicalPerPixel * viewport.pricePerPixel
      tx == Abs(nx) * viewport.pricePerPixel
      ty == Abs(ny) * viewport.logicalPerPixel
      g == Max2(1, GCD(GCD(tx, ty), lim))
  IN  /\ tx <= lim
      /\ ty <= lim
      /\ (tx \div g) * (tx \div g) <= (lim \div g) * (lim \div g) - (ty \div g) * (ty \div g)

\* distPointPx(a, b, viewport) <= px
distPointPxWithin(a, b, viewport, px) ==
  WithinPx(a.logical - b.logical, a.price - b.price, 1, viewport, px)

equalPoints(a, b, viewport, px) == distPointPxWithin(a, b, viewport, px)

\* distPointPx(p, a + (tn / denom) * (b - a), viewport) <= px
ProjWithin(p, a, b, tn, denom, viewport, px) ==
  LET dx == b.logical - a.logical
      dy == b.price - a.price
  IN  WithinPx((p.logical - a.logical) * denom - tn * dx,
               (p.price - a.price) * denom - tn * dy,
               denom, viewport, px)

\* the numerator of t: (px - ax) * dx + (py - ay) * dy
ProjNum(p, a, b) ==
  (p.logical - a.logical) * (b.logical - a.logical)
    + (p.price - a.price) * (b.price - a.price)

SqLen(a, b) ==
  (b.logical - a.logical) * (b.logical - a.logical)
    + (b.price - a.price) * (b.price - a.price)

\* segmentDistancePx(p, a, b, viewport) <= px; t is clamped to [0, 1]
segmentDistancePxWithin(p, a, b, viewport, px) ==
  LET denom == SqLen(a, b)
  IN  IF denom = 0 THEN distPointPxWithin(p, a, viewport, px)
      ELSE ProjWithin(p, a, b, Max2(0, Min2(denom, ProjNum(p, a, b))),
                      denom, viewport, px)

\* rayDistancePx(p, a, b, viewport) <= px; t is max(t, 0)
rayDistancePxWithin(p, a, b, viewport, px) ==
  LET denom == SqLen(a, b)
  IN  IF denom = 0 THEN distPointPxWithin(p, a, viewport, px)
      ELSE ProjWithin(p, a, b, Max2(ProjNum(p, a, b), 0), denom, viewport, px)

\* lineDistancePx(p, a, b, viewport) <= px; t is not clamped
lineDistancePxWithin(p, a, b, viewport, px) ==
  LET denom == SqLen(a, b)
  IN  IF denom = 0 THEN distPointPxWithin(p, a, viewport, px)
      ELSE ProjWithin(p, a, b, ProjNum(p, a, b), denom, viewport, px)

nearRectEdge(p, a, b, viewport, tolerancePx) ==
  LET minLogical == Min2(a.logical, b.logical)
      maxLogical == Max2(a.logical, b.logical)
      minPrice == Min2(a.price, b.price)
      maxPrice == Max2(a.price, b.price)
  IN  \/ segmentDistancePxWithin(p, Pt(minLogical, minPrice), Pt(minLogical, maxPrice), viewport, tolerancePx)
      \/ segmentDistancePxWithin(p, Pt(maxLogical, minPrice), Pt(maxLogical, maxPrice), viewport, tolerancePx)
      \/ segmentDistancePxWithin(p, Pt(minLogical, maxPrice), Pt(maxLogical, maxPrice), viewport, tolerancePx)
      \/ segmentDistancePxWithin(p, Pt(minLogical, minPrice), Pt(maxLogical, minPrice), viewport, tolerancePx)

isLineTool(tool) ==
  tool \in {"trend_line", "arrow", "ruler", "fibonacci", "ray", "extended_line"}

RECURSIVE FirstHandle(_, _, _, _, _)
\* the handle loop of hitTestEntity from (0-based) index on: the first index
\* whose point is within tolerance, or -1
FirstHandle(points, index, point, viewport, tolerancePx) ==
  IF index >= Len(points) THEN -1
  ELSE IF distPointPxWithin(point, points[index + 1], viewport, tolerancePx)
       THEN index
       ELSE FirstHandle(points, index + 1, point, viewport, tolerancePx)

\* the tool-specific tests of hitTestEntity that follow the handle loop
BodyHit(entity, point, viewport, tolerancePx) ==
  LET pts == entity.points
      n == Len(pts)
  IN
  \/ /\ isLineTool(entity.tool) /\ n >= 2
     /\ \/ entity.tool = "ray" /\ rayDistancePxWithin(point, pts[1], pts[2], viewport, tolerancePx)
        \/ entity.tool = "extended_line" /\ lineDistancePxWithin(point, pts[1], pts[2], viewport, tolerancePx)
        \/ segmentDistancePxWithin(point, pts[1], pts[2], viewport, tolerancePx)
  \/ /\ entity.tool = "horizontal_line" /\ n >= 1
     /\ Abs(point.price - pts[1].price) <= tolerancePx * viewport.pricePerPixel
  \/ /\ entity.tool = "vertical_line" /\ n >= 1
     /\ Abs(point.logical - pts[1].logical) <= tolerancePx * viewport.logicalPerPixel
  \/ /\ entity.tool = "rectangle" /\ n >= 2
     /\ nearRectEdge(point, pts[1], pts[2], viewport, tolerancePx)
  \/ /\ entity.tool = "brush" /\ n > 1
     /\ \E i \in 2..n : segmentDistancePxWithin(point, pts[i - 1], pts[i], viewport, tolerancePx)
  \/ /\ entity.tool = "text" /\ n >= 1
     /\ point.logical >= pts[1].logical
     /\ point.logical <= pts[1].logical + viewport.logicalPerPixel * TEXT_BOX_WIDTH_PX
     /\ point.price <= pts[1].price
     /\ point.price >= pts[1].price - viewport.pricePerPixel * TEXT_BOX_HEIGHT_PX

NoHit == [kind |-> "null"]

\* hitTestEntity with the body tests ahead of the handle loop
hitTestEntityBodyFirst(entity, point, viewport, tolerancePx) ==
  IF ~entity.visible THEN NoHit
  ELSE IF BodyHit(entity, point, viewport, tolerancePx) THEN [kind |-> "body"]
  ELSE LET h == FirstHandle(entity.points, 0, point, viewport, tolerancePx)
       IN  IF h >= 0 THEN [kind |-> "handle", handleIndex |-> h] ELSE NoHit

hitTestEntity(entity, point, viewport, tolerancePx) ==
  IF ~entity.visible THEN NoHit
  ELSE LET h == FirstHandle(entity.points, 0, point, viewport, tolerancePx)
       IN  IF h >= 0 THEN [kind |-> "handle", handleIndex |-> h]
           ELSE IF BodyHit(entity, point, viewport, tolerancePx)
                THEN [kind |-> "body"]
                ELSE NoHit

bboxFromPoints(points) ==
  IF Len(points) = 0
  THEN [minLogical |-> 0, maxLogical |-> 0, minPrice |-> 0, maxPrice |-> 0]
  ELSE LET ls == {points[i].logical : i \in 1..Len(points)}
           ps == {points[i].price : i \in 1..Len(points)}
       IN  [minLogical |-> CHOOSE v \in ls : \A w \in ls : v <= w,
            maxLogical |-> CHOOSE v \in ls : \A w \in ls : v >= w,
            minPrice |-> CHOOSE v \in ps : \A w \in ps : v <= w,
            maxPrice |-> CHOOSE v \in ps : \A w \in ps : v >= w]

normalizeBBox(bbox) ==
  [minLogical |-> Min2(bbox.minLogical, bbox.maxLogical),
   maxLogical |-> Max2(bbox.minLogical, bbox.maxLogical),
   minPrice |-> Min2(bbox.minPrice, bbox.maxPrice),
   maxPrice |-> Max2(bbox.minPrice, bbox.maxPrice)]

expandBBoxByPixels(bbox, viewport, pixels) ==
  LET logicalPadding == viewport.logicalPerPixel * pixels
      pricePadding == viewport.pricePerPixel * pixels
  IN  [minLogical |-> bbox.minLogical - logicalPadding,
       maxLogical |-> bbox.maxLogical + logicalPadding,
       minPrice |-> bbox.minPrice - pricePadding,
       maxPrice |-> bbox.maxPrice + pricePadding]

entityBBox(entity, viewport) ==
  LET bbox == bboxFromPoints(entity.points)
      p == entity.points
  IN  IF entity.tool = "horizontal_line" /\ Len(p) >= 1
      THEN [minLogical |-> bbox.minLogical - viewport.logicalPerPixel * 4,
            maxLogical |-> bbox.maxLogical + viewport.logicalPerPixel * 4,
            minPrice |-> p[1].price,
            maxPrice |-> p[1].price]
      ELSE IF entity.tool = "vertical_line" /\ Len(p) >= 1
      THEN [minLogical |-> p[1].logical,
            maxLogical |-> p[1].logical,
            minPrice |-> bbox.minPrice - viewport.pricePerPixel * 4,
            maxPrice |-> bbox.maxPrice + viewport.pricePerPixel * 4]
      ELSE IF entity.tool = "text" /\ Len(p) >= 1
      THEN [minLogical |-> p[1].logical,
            maxLogical |-> p[1].logical + viewport.logicalPerPixel * TEXT_BOX_WIDTH_PX,
            minPrice |-> p[1].price - viewport.pricePerPixel * TEXT_BOX_HEIGHT_PX,
            maxPrice |-> p[1].price]
      ELSE bbox

rectContainsBBox(sel, entity) ==
  LET normalizedSelection == normalizeBBox(sel)
  IN  /\ entity.minLogical >= normalizedSelection.minLogical
      /\ entity.maxLogical <= normalizedSelection.maxLogical
      /\ entity.minPrice >= normalizedSelection.minPrice
      /\ entity.maxPrice <= normalizedSelection.maxPrice

----------------------------------------------------------------------------
(* spatial-index.ts *)

\* SpatialIndex.rebuild: one item per visible drawing
IndexItems(list, viewport, tolerancePx) ==
  { [id |-> list[i].id,
     box |-> expandBBoxByPixels(entityBBox(list[i], viewport), viewport, tolerancePx)] :
    i \in {j \in 1..Len(list) : list[j].visible} }

\* SpatialIndex.queryPoint: the ids of the items whose box holds the point
queryPoint(items, logical, price) ==
  { it.id : it \in { k \in items :
      /\ k.box.minLogical <= logical /\ logical <= k.box.maxLogical
      /\ k.box.minPrice <= price /\ price <= k.box.maxPrice } }

----------------------------------------------------------------------------
(* tools.ts, defaults.ts *)

Tool(id, minPoints, maxPoints) ==
  [id |-> id, minPoints |-> minPoints, maxPoints |-> maxPoints,
   continuous |-> FALSE, defaultStyle |-> Empty, normalize |-> "none"]

BUILTIN_TOOLS ==
  << Tool("cursor", 0, 0),
     Tool("trend_line", 2, 2),
     Tool("horizontal_line", 1, 1),
     Tool("vertical_line", 1, 1),
     Tool("ray", 2, 2),
     Tool("extended_line", 2, 2),
     Tool("rectangle", 2, 2),
     Tool("arrow", 2, 2),
     Tool("ruler", 2, 2),
     Tool("fibonacci", 2, 2),
     [Tool("brush", 2, BrushMaxPoints) EXCEPT !.continuous = TRUE],
     Tool("text", 1, 1) >>

DEFAULT_STYLE ==
  [strokeColor |-> "#2a7fff", fillColor |-> "rgba(42, 127, 255, 0.16)",
   textColor |-> "#101820", lineWidth |-> 2, lineStyle |-> "solid",
   opacity |-> 1, showLabel |-> TRUE]

DEFAULT_OPTIONS ==
  [initialTool |-> "cursor", defaultStyle |-> DEFAULT_STYLE, historyLimit |-> 300,
   hitTolerancePxMouse |-> HitTolerancePxMouse,
   hitTolerancePxTouch |-> HitTolerancePxTouch,
   snapMode |-> "weak", emitOnAnimationFrame |-> TRUE, enableHoldToDraw |-> TRUE,
   holdToDrawMs |-> 180, holdMoveTolerancePx |-> HoldMoveTolerancePx]

\* the risk tool an extension package registers (registerRiskTool)
RiskTool ==
  [Tool("risk_position", 2, 2) EXCEPT
     !.defaultStyle = [strokeColor |-> "#00a85a", fillColor |-> "rgba(0, 168, 90, 0.16)"],
     !.normalize = "riskReward"]

\* tool.normalize ? tool.normalize(entity) : entity
applyNormalize(tool, entity) ==
  IF tool.normalize = "riskReward"
  THEN [entity EXCEPT !.metadata = [riskReward |-> 2]]
  ELSE entity

----------------------------------------------------------------------------
(* history.ts *)

\* a deep copy; values of the model are immutable, a copy is the value
cloneEntity(entity) == entity

cloneEntities(entities) == [i \in 1..Len(entities) |-> cloneEntity(entities[i])]

\* a push that never evicts
historyPushUnbounded(h, frame, limit) ==
  [undoStack |-> Append(h.undoStack, frame), redoStack |-> <<>>]

\* HistoryStore.push on [undoStack, redoStack]
historyPush(h, frame, limit) ==
  LET pushed == Append(h.undoStack, frame)
  IN  [undoStack |-> IF Len(pushed) > limit THEN Tail(pushed) ELSE pushed,
       redoStack |-> <<>>]

\* HistoryStore.undo: the stacks after it (the frame is the one moved)
historyUndo(h) ==
  IF h.undoStack = <<>> THEN h
  ELSE [undoStack |-> SubSeq(h.undoStack, 1, Len(h.undoStack) - 1),
        redoStack |-> Append(h.redoStack, Last(h.undoStack))]

\* a redo that leaves the frame on the redo stack as well
historyRedoKeeps(h) ==
  IF h.redoStack = <<>> THEN h
  ELSE [undoStack |-> Append(h.undoStack, Last(h.redoStack)),
        redoStack |-> h.redoStack]

\* HistoryStore.redo
historyRedo(h) ==
  IF h.redoStack = <<>> THEN h
  ELSE [undoStack |-> Append(h.undoStack, Last(h.redoStack)),
        redoStack |-> SubSeq(h.redoStack, 1, Len(h.redoStack) - 1)]

----------------------------------------------------------------------------
(* engine.ts: helpers.  A handler is a function from the engine state s (a *)
(* record of the engine's variables, with the reasons it notified and the  *)
(* error it threw) to the state it leaves.                                 *)

Idle == [mode |-> "idle"]

styleChanged(a, b) ==
  \/ Len(a) # Len(b)
  \/ \E i \in 1..Len(a) :
       \/ a[i].id # b[i].id
       \/ a[i].updatedAt # b[i].updatedAt
       \/ a[i].zIndex # b[i].zIndex

\* [...list].sort((a, b) => a.zIndex - b.zIndex): a stable sort
RECURSIVE SortByZ(_)
SortByZ(list) ==
  IF list = <<>> THEN <<>>
  ELSE LET e == Last(list)
           t == SortByZ(SubSeq(list, 1, Len(list) - 1))
           k == Cardinality({i \in 1..Len(t) : t[i].zIndex <= e.zIndex})
       IN  SubSeq(t, 1, k) \o <<e>> \o SubSeq(t, k + 1, Len(t))

\* ordering by zIndex that keeps the zIndex values
keepZ(list) == SortByZ(list)

normalizeZ(list) ==
  LET sorted == SortByZ(list)
  IN  [i \in 1..Len(sorted) |-> [sorted[i] EXCEPT !.zIndex = i - 1]]

sortedDrawings(s) == SortByZ(s.drawings)

\* Map.has, Map.get, Map.set, Map.delete on the insertion-ordered values
MapHas(d, id) == \E i \in 1..Len(d) : d[i].id = id
MapGet(d, id) == d[CHOOSE i \in 1..Len(d) : d[i].id = id]
MapSet(d, e) ==
  IF MapHas(d, e.id)
  THEN [i \in 1..Len(d) |-> IF d[i].id = e.id THEN e ELSE d[i]]
  ELSE Append(d, e)
MapDelete(d, id) ==
  LET Keep(e) == e.id # id
  IN  SelectSeq(d, Keep)

RECURSIVE MapSetAll(_, _)
MapSetAll(d, list) ==
  IF list = <<>> THEN d
  ELSE MapSet(MapSetAll(d, SubSeq(list, 1, Len(list) - 1)), Last(list))

\* ids sorted by (drawings.get(id)?.zIndex ?? 0), stably
RECURSIVE SortIdsByZ(_, _)
SortIdsByZ(ids, d) ==
  IF ids = <<>> THEN <<>>
  ELSE LET Z(id) == IF MapHas(d, id) THEN MapGet(d, id).zIndex ELSE 0
           e == Last(ids)
           t == SortIdsByZ(SubSeq(ids, 1, Len(ids) - 1), d)
           k == Cardinality({i \in 1..Len(t) : Z(t[i]) <= Z(e)})
       IN  SubSeq(t, 1, k) \o <<e>> \o SubSeq(t, k + 1, Len(t))

activeSelectionIds(s) ==
  LET Has(id) == MapHas(s.drawings, id)
  IN  SortIdsByZ(SelectSeq(s.selection, Has), s.drawings)

\* .at(-1) ?? null
LastOrNull(ids) == IF ids = <<>> THEN NoId ELSE Last(ids)

interactionMode(s) == s.interaction.mode

notify(s, reason) == [s EXCEPT !.reasons = Append(@, reason)]

throw(s, message) == [s EXCEPT !.thrown = message]

selectionSet(s, ids) ==
  LET Has(id) == MapHas(s.drawings, id)
  IN  [s EXCEPT !.selection = SetFrom(SelectSeq(ids, Has)),
                !.primaryId = LastOrNull(ids)]

RECURSIVE addSelection(_, _)
addSelection(s, ids) ==
  IF ids = <<>> THEN s
  ELSE LET t == addSelection(s, SubSeq(ids, 1, Len(ids) - 1))
           id == Last(ids)
       IN  IF MapHas(t.drawings, id)
           THEN [t EXCEPT !.selection = SetAdd(@, id), !.primaryId = id]
           ELSE t

removeSelection(s, id) ==
  LET Other(x) == x # id
      t == [s EXCEPT !.selection = SelectSeq(@, Other)]
  IN  IF t.primaryId = id
      THEN [t EXCEPT !.primaryId = LastOrNull(activeSelectionIds(t))]
      ELSE t

toPoint(s, input) ==
  IF s.opts.snapMode = "off" THEN Pt(input.logical, input.price)
  ELSE IF s.opts.snapMode = "strong"
       THEN LET step == input.viewport.pricePerPixel * 5
            IN  Pt(input.logical, RoundDiv(input.price, step) * step)
       ELSE Pt(input.logical, input.price)

hitTolerance(s, input) ==
  IF input.pointerType = "touch" THEN s.opts.hitTolerancePxTouch
  ELSE s.opts.hitTolerancePxMouse

pushHistory(s, label, before, after, now) ==
  IF ~styleChanged(before, after) THEN s
  ELSE LET h == historyPush([undoStack |-> s.undoStack, redoStack |-> s.redoStack],
                            [label |-> label, before |-> before, after |-> after, at |-> now],
                            s.historyLimit)
       IN  [s EXCEPT !.undoStack = h.undoStack, !.redoStack = h.redoStack]

applyDrawings(s, entities) ==
  LET normalized == normalizeZ(cloneEntities(entities))
      t == [s EXCEPT !.drawings = MapSetAll(<<>>, normalized)]
      Has(id) == MapHas(t.drawings, id)
      u == [t EXCEPT !.selection = SelectSeq(@, Has)]
  IN  IF u.primaryId # NoId /\ ~MapHas(u.drawings, u.primaryId)
      THEN [u EXCEPT !.primaryId = LastOrNull(activeSelectionIds(u))]
      ELSE u

highestZ(s) ==
  LET zs == {s.drawings[i].zIndex : i \in 1..Len(s.drawings)} \cup {-1}
  IN  CHOOSE z \in zs : \A w \in zs : z >= w

\* newEntity, with the id nanoid returns
newEntity(s, tool, points, id, now) ==
  [id |-> id, tool |-> tool.id, points |-> points,
   style |-> Spread(s.opts.defaultStyle, tool.defaultStyle),
   text |-> IF tool.id = "text" THEN "Text" ELSE "",
   visible |-> TRUE, locked |-> FALSE, zIndex |-> highestZ(s) + 1,
   metadata |-> Empty,
   createdAt |-> now, updatedAt |-> now]

\* the first drawing of list (top-most first) that the test accepts
FirstAccepted(list, Accept(_)) ==
  LET hits == {i \in 1..Len(list) : Accept(list[i])}
  IN  IF hits = {} THEN 0 ELSE CHOOSE i \in hits : \A j \in hits : i <= j

HitOf(drawing, hit) ==
  IF hit.kind = "handle"
  THEN [id |-> drawing.id, kind |-> hit.kind, handleIndex |-> hit.handleIndex]
  ELSE [id |-> drawing.id, kind |-> hit.kind]

\* a hit query that trusts the index: no scan of the entities it left out
topMostHitIndexed(s, items, point, viewport, tolerancePx) ==
  LET candidateIds == queryPoint(items, point.logical, point.price)
      list == Reverse(sortedDrawings(s))
      InIndex(d) == /\ d.visible
                    /\ (candidateIds = {} \/ d.id \in candidateIds)
                    /\ hitTestEntity(d, point, viewport, tolerancePx).kind # "null"
      first == FirstAccepted(list, InIndex)
  IN  IF first # 0
      THEN HitOf(list[first], hitTestEntity(list[first], point, viewport, tolerancePx))
      ELSE NoHit

\* topMostHit, with the index items of the last rebuild
topMostHit(s, items, point, viewport, tolerancePx) ==
  LET candidateIds == queryPoint(items, point.logical, point.price)
      list == Reverse(sortedDrawings(s))
      Hits(d) == hitTestEntity(d, point, viewport, tolerancePx).kind # "null"
      InIndex(d) == /\ d.visible
                    /\ (candidateIds = {} \/ d.id \in candidateIds)
                    /\ Hits(d)
      first == FirstAccepted(list, InIndex)
      second == FirstAccepted(list, Hits)
  IN  IF first # 0
      THEN HitOf(list[first], hitTestEntity(list[first], point, viewport, tolerancePx))
      ELSE IF second # 0
      THEN HitOf(list[second], hitTestEntity(list[second], point, viewport, tolerancePx))
      ELSE NoHit

----------------------------------------------------------------------------
(* engine.ts: interactions *)

\* a gesture that starts pending-hold with a mouse or a pen as well
startCreatingHoldsAll(s, input, tool, now) ==
  [s EXCEPT !.interaction =
     [mode |-> "creating",
      tool |-> tool,
      startedAt |-> now,
      pointerType |-> input.pointerType,
      downScreen |-> [x |-> input.x, y |-> input.y],
      points |-> <<toPoint(s, input)>>,
      beforeSnapshot |-> cloneEntities(sortedDrawings(s)),
      pendingHold |-> /\ s.opts.enableHoldToDraw
                      /\ tool.id # "cursor"
                      /\ ~tool.continuous]]

startCreating(s, input, tool, now) ==
  [s EXCEPT !.interaction =
     [mode |-> "creating",
      tool |-> tool,
      startedAt |-> now,
      pointerType |-> input.pointerType,
      downScreen |-> [x |-> input.x, y |-> input.y],
      points |-> <<toPoint(s, input)>>,
      beforeSnapshot |-> cloneEntities(sortedDrawings(s)),
      pendingHold |-> /\ s.opts.enableHoldToDraw
                      /\ input.pointerType = "touch"
                      /\ tool.id # "cursor"
                      /\ ~tool.continuous]]

startDragSelection(s, input) ==
  LET ids == activeSelectionIds(s)
      Unlocked(id) == ~MapGet(s.drawings, id).locked
      draggable == SelectSeq(ids, Unlocked)
  IN  IF ids = <<>> THEN s
      ELSE [s EXCEPT !.interaction =
              [mode |-> "dragging-selection",
               start |-> toPoint(s, input),
               beforeSnapshot |-> cloneEntities(sortedDrawings(s)),
               originPoints |-> [i \in 1..Len(draggable) |->
                                   [id |-> draggable[i],
                                    points |-> MapGet(s.drawings, draggable[i]).points]]]]

RECURSIVE AddAll(_, _)
\* for (const id of ids) set.add(id)
AddAll(set, ids) ==
  IF ids = <<>> THEN set
  ELSE SetAdd(AddAll(set, SubSeq(ids, 1, Len(ids) - 1)), Last(ids))

\* a marquee that takes every entity its rectangle touches
applyMarqueeSelectionOverlap(s, start, current, baseSelection) ==
  LET selectionBounds == normalizeBBox(bboxFromPoints(<<start, current>>))
      Touches(drawing) ==
        LET b == expandBBoxByPixels(bboxFromPoints(drawing.points), s.lastViewport,
                                    IF drawing.tool = "brush" THEN 2 ELSE 1)
        IN  /\ b.minLogical <= selectionBounds.maxLogical
            /\ b.maxLogical >= selectionBounds.minLogical
            /\ b.minPrice <= selectionBounds.maxPrice
            /\ b.maxPrice >= selectionBounds.minPrice
      in == SelectSeq(s.drawings, Touches)
      next == AddAll(baseSelection, [i \in 1..Len(in) |-> in[i].id])
  IN  [s EXCEPT !.selection = next, !.primaryId = LastOrNull(next)]

applyMarqueeSelection(s, start, current, baseSelection) ==
  LET selectionBounds == bboxFromPoints(<<start, current>>)
      Inside(drawing) ==
        rectContainsBBox(selectionBounds,
          expandBBoxByPixels(bboxFromPoints(drawing.points), s.lastViewport,
                             IF drawing.tool = "brush" THEN 2 ELSE 1))
      in == SelectSeq(s.drawings, Inside)
      matched == [i \in 1..Len(in) |-> in[i].id]
      next == AddAll(baseSelection, matched)
  IN  [s EXCEPT !.selection = next, !.primaryId = LastOrNull(next)]

\* a commit whose history frame starts from the entities as they are now
commitNewEntityFromNow(s, tool, points, beforeSnapshot, now) ==
  IF Len(points) < tool.minPoints THEN s
  ELSE LET entity == newEntity(s, tool, points, s.nextId, now)
           normalized == applyNormalize(tool, entity)
           t == selectionSet([s EXCEPT !.drawings = MapSet(@, normalized),
                                       !.nextId = @ + 1],
                             <<normalized.id>>)
           after == cloneEntities(sortedDrawings(t))
       IN  notify(pushHistory(t, "create:" \o tool.id, cloneEntities(sortedDrawings(s)),
                              after, now),
                  "drawings")

commitNewEntity(s, tool, points, beforeSnapshot, now) ==
  IF Len(points) < tool.minPoints THEN s
  ELSE LET entity == newEntity(s, tool, points, s.nextId, now)
           normalized == applyNormalize(tool, entity)
           t == selectionSet([s EXCEPT !.drawings = MapSet(@, normalized),
                                       !.nextId = @ + 1],
                             <<normalized.id>>)
           after == cloneEntities(sortedDrawings(t))
       IN  notify(pushHistory(t, "create:" \o tool.id, beforeSnapshot, after, now), "drawings")

\* points[k] ?? point, k 0-based
PointOr(points, k, point) == IF Len(points) > k THEN points[k + 1] ELSE point

\* a pointerUp that ends a pending-hold gesture like any other
finishCreatingHeld(s, input, now) ==
  LET ia == s.interaction
      point == toPoint(s, input)
      points == ia.points
      idle == [s EXCEPT !.interaction = Idle]
      first == PointOr(points, 0, point)
      second == PointOr(points, 1, point)
      ToIdle(t) == [t EXCEPT !.interaction = Idle]
  IN  IF s.interaction.mode # "creating" THEN s
      ELSE IF ia.tool.continuous
      THEN IF Len(points) < ia.tool.minPoints
           THEN notify(idle, "pointer")
           ELSE ToIdle(commitNewEntity(s, ia.tool, points, ia.beforeSnapshot, now))
      ELSE IF ia.tool.maxPoints = 1
      THEN ToIdle(commitNewEntity(s, ia.tool, <<first>>, ia.beforeSnapshot, now))
      ELSE IF equalPoints(first, second, input.viewport, 2)
      THEN notify(idle, "pointer")
      ELSE ToIdle(commitNewEntity(s, ia.tool, <<first, second>>, ia.beforeSnapshot, now))

finishCreating(s, input, now) ==
  LET ia == s.interaction
      elapsed == now - ia.startedAt
      point == toPoint(s, input)
      points == ia.points
      idle == [s EXCEPT !.interaction = Idle]
      first == PointOr(points, 0, point)
      second == PointOr(points, 1, point)
      ToIdle(t) == [t EXCEPT !.interaction = Idle]
  IN  IF s.interaction.mode # "creating" THEN s
      ELSE IF /\ ia.pendingHold
              /\ ia.pointerType = "touch"
              /\ elapsed < s.opts.holdToDrawMs
      THEN notify(idle, "pointer")
      ELSE IF ia.tool.continuous
      THEN IF Len(points) < ia.tool.minPoints
           THEN notify(idle, "pointer")
           ELSE ToIdle(commitNewEntity(s, ia.tool, points, ia.beforeSnapshot, now))
      ELSE IF ia.tool.maxPoints = 1
      THEN ToIdle(commitNewEntity(s, ia.tool, <<first>>, ia.beforeSnapshot, now))
      ELSE IF equalPoints(first, second, input.viewport, 2)
      THEN notify(idle, "pointer")
      ELSE ToIdle(commitNewEntity(s, ia.tool, <<first, second>>, ia.beforeSnapshot, now))

\* a nudge that moves the whole selection, locked entities included
keyboardMoveAll(s, dxPx, dyPx, now) ==
  LET selected == activeSelectionIds(s)
      before == cloneEntities(sortedDrawings(s))
      delta == Pt(dxPx * s.lastViewport.logicalPerPixel, dyPx * s.lastViewport.pricePerPixel)
      d == s.drawings
      t == [s EXCEPT !.drawings =
              [i \in 1..Len(d) |->
                 IF Contains(selected, d[i].id)
                 THEN [d[i] EXCEPT !.points = translatePoints(d[i].points, delta),
                                   !.updatedAt = now]
                 ELSE d[i]]]
      after == cloneEntities(sortedDrawings(t))
  IN  IF selected = <<>> THEN s
      ELSE notify(pushHistory(t, "move-selection:keyboard", before, after, now), "drawings")

keyboardMoveSelection(s, dxPx, dyPx, now) ==
  LET selected == activeSelectionIds(s)
      before == cloneEntities(sortedDrawings(s))
      delta == Pt(dxPx * s.lastViewport.logicalPerPixel, dyPx * s.lastViewport.pricePerPixel)
      d == s.drawings
      t == [s EXCEPT !.drawings =
              [i \in 1..Len(d) |->
                 IF Contains(selected, d[i].id) /\ ~d[i].locked
                 THEN [d[i] EXCEPT !.points = translatePoints(d[i].points, delta),
                                   !.updatedAt = now]
                 ELSE d[i]]]
      after == cloneEntities(sortedDrawings(t))
  IN  IF selected = <<>> THEN s
      ELSE notify(pushHistory(t, "move-selection:keyboard", before, after, now), "drawings")

RECURSIVE DuplicateInPlace(_, _, _, _)
\* a copy loop that gives each copy the zIndex of its source
DuplicateInPlace(s, ids, delta, now) ==
  IF ids = <<>> THEN [s |-> s, ids |-> <<>>]
  ELSE LET r == DuplicateInPlace(s, SubSeq(ids, 1, Len(ids) - 1), delta, now)
           drawing == MapGet(r.s.drawings, Last(ids))
           copy == [cloneEntity(drawing) EXCEPT
                      !.id = r.s.nextId,
                      !.points = translatePoints(@, delta),
                      !.createdAt = now,
                      !.updatedAt = now]
       IN  [s |-> [r.s EXCEPT !.drawings = MapSet(@, copy), !.nextId = @ + 1],
            ids |-> Append(r.ids, copy.id)]

RECURSIVE Duplicate(_, _, _, _)
\* the copy loop of duplicateSelection and of alt-drag: the state with the
\* copies set, and the ids of the copies
Duplicate(s, ids, delta, now) ==
  IF ids = <<>> THEN [s |-> s, ids |-> <<>>]
  ELSE LET r == Duplicate(s, SubSeq(ids, 1, Len(ids) - 1), delta, now)
           drawing == MapGet(r.s.drawings, Last(ids))
           copy == [cloneEntity(drawing) EXCEPT
                      !.id = r.s.nextId,
                      !.zIndex = highestZ(r.s) + 1,
                      !.points = translatePoints(@, delta),
                      !.createdAt = now,
                      !.updatedAt = now]
       IN  [s |-> [r.s EXCEPT !.drawings = MapSet(@, copy), !.nextId = @ + 1],
            ids |-> Append(r.ids, copy.id)]

----------------------------------------------------------------------------
(* engine.ts: the DrawingEngine interface *)

\* setTool that leaves the interaction before it looks the tool up
setToolEager(s, tool) ==
  IF tool \notin DOMAIN s.toolRegistry
  THEN throw([s EXCEPT !.interaction = Idle], "Unknown tool")
  ELSE notify([s EXCEPT !.activeTool = tool, !.interaction = Idle], "tool")

setTool(s, tool) ==
  IF tool \notin DOMAIN s.toolRegistry
  THEN throw(s, "Unknown tool")
  ELSE notify([s EXCEPT !.activeTool = tool, !.interaction = Idle], "tool")

setOptions(s, nextOptions) ==
  LET merged == Spread(s.opts, nextOptions)
      style == IF "defaultStyle" \in DOMAIN nextOptions
               THEN Spread(s.opts.defaultStyle, nextOptions.defaultStyle)
               ELSE s.opts.defaultStyle
  IN  notify([s EXCEPT !.opts = [merged EXCEPT !.defaultStyle = style]], "tool")

registerTool(s, definition) ==
  notify([s EXCEPT !.toolRegistry =
            [id \in DOMAIN @ \cup {definition.id} |->
               IF id = definition.id THEN definition ELSE @[id]]],
         "tool")

\* the alt-drag duplication of pointerDown
altDuplicate(s, input, now) ==
  LET before == cloneEntities(sortedDrawings(s))
      delta == Pt(input.viewport.logicalPerPixel * AltDragOffsetPx,
                  input.viewport.pricePerPixel * (-AltDragOffsetPx))
      r == Duplicate(s, activeSelectionIds(s), delta, now)
      t == selectionSet(r.s, r.ids)
      after == cloneEntities(sortedDrawings(t))
  IN  pushHistory(t, "duplicate:alt-drag", before, after, now)

\* pointerDown with the cursor tool on a hit, once the selection follows it
\* a pointerDown on an entity that starts a drag with any button
cursorDownOnHitAnyButton(selected, ids, input, now) ==
  LET canDrag == /\ ~input.shiftKey
                 /\ \E i \in 1..Len(ids) : ~MapGet(selected.drawings, ids[i]).locked
  IN  IF canDrag
      THEN IF input.altKey /\ Len(ids) > 0
           THEN notify(startDragSelection(altDuplicate(selected, input, now), input), "pointer")
           ELSE notify(startDragSelection(selected, input), "pointer")
      ELSE notify([selected EXCEPT !.interaction = Idle], "pointer")

cursorDownOnHit(selected, ids, input, now) ==
  LET canDrag == /\ ~input.shiftKey
                 /\ input.button # 2
                 /\ \E i \in 1..Len(ids) : ~MapGet(selected.drawings, ids[i]).locked
  IN  IF canDrag
      THEN IF input.altKey /\ Len(ids) > 0
           THEN notify(startDragSelection(altDuplicate(selected, input, now), input), "pointer")
           ELSE notify(startDragSelection(selected, input), "pointer")
      ELSE notify([selected EXCEPT !.interaction = Idle], "pointer")

\* a click that selects the entity hit alone even when it is selected already
selectHitAlone(s, id, shiftKey) ==
  IF shiftKey
  THEN IF Contains(s.selection, id)
       THEN removeSelection(s, id)
       ELSE addSelection(s, <<id>>)
  ELSE selectionSet(s, <<id>>)

\* the selection pointerDown makes of the entity hit
selectHit(s, id, shiftKey) ==
  IF shiftKey
  THEN IF Contains(s.selection, id)
       THEN removeSelection(s, id)
       ELSE addSelection(s, <<id>>)
  ELSE IF ~Contains(s.selection, id)
       THEN selectionSet(s, <<id>>)
       ELSE s

\* pointerDown with the cursor tool where nothing is hit
startMarquee(cleared, point, shiftKey) ==
  notify([cleared EXCEPT !.interaction =
            [mode |-> "marquee", start |-> point, current |-> point,
             baseSelection |-> IF shiftKey THEN cleared.selection ELSE <<>>]],
         "pointer")

\* pointerDown with the cursor tool, hit being what topMostHit returned
cursorDown(s, input, now, point, hit) ==
  IF hit.kind # "null"
  THEN cursorDownOnHit(selectHit(s, hit.id, input.shiftKey),
                       activeSelectionIds(selectHit(s, hit.id, input.shiftKey)),
                       input, now)
  ELSE startMarquee(IF ~input.shiftKey THEN selectionSet(s, <<>>) ELSE s,
                    point, input.shiftKey)

pointerDownAt(s, input, now, tolerance) ==
  IF s.activeTool = "cursor"
  THEN cursorDown(s, input, now, toPoint(s, input),
                  topMostHit(s, IndexItems(sortedDrawings(s), input.viewport, tolerance),
                             toPoint(s, input), input.viewport, tolerance))
  ELSE IF s.activeTool \notin DOMAIN s.toolRegistry
  THEN s
  ELSE notify(startCreating(s, input, s.toolRegistry[s.activeTool], now), "pointer")

pointerDown(s0, input, now) ==
  pointerDownAt([s0 EXCEPT !.lastViewport = input.viewport], input, now,
                hitTolerance(s0, input))

\* Math.hypot(dx, dy) >= px
MovedAtLeast(dx, dy, px) == dx * dx + dy * dy >= px * px

\* a drag that moves the entities from where the last pointerMove left them
pointerMoveBySteps(s0, input, now) ==
  LET s == [s0 EXCEPT !.lastViewport = input.viewport]
      ia == s.interaction
      d == s.drawings
      point == toPoint(s, input)
      \* Creating
      promoted ==
        \/ now - ia.startedAt >= s.opts.holdToDrawMs
        \/ MovedAtLeast(input.x - ia.downScreen.x, input.y - ia.downScreen.y,
                        s.opts.holdMoveTolerancePx)
      pendingHold == ia.pendingHold /\ ~promoted
      pts == ia.points
      captured ==
        IF ia.tool.continuous
        THEN IF pts = <<>> \/ ~equalPoints(Last(pts), point, input.viewport, 1)
             THEN Append(pts, point) ELSE pts
        ELSE IF ia.tool.maxPoints > 1
        THEN IF Len(pts) = 1 THEN Append(pts, point)
             ELSE [pts EXCEPT ![2] = point]
        ELSE pts
      \* DraggingSelection
      delta == Pt(point.logical - ia.start.logical, point.price - ia.start.price)
      Origin(id) ==
        LET hits == {k \in 1..Len(ia.originPoints) : ia.originPoints[k].id = id}
        IN  IF hits = {} THEN 0 ELSE CHOOSE k \in hits : TRUE
  IN  IF ia.mode = "creating"
      THEN IF pendingHold THEN s
           ELSE notify([s EXCEPT !.interaction.pendingHold = FALSE,
                                 !.interaction.points = captured], "pointer")
      ELSE IF ia.mode = "dragging-selection"
      THEN notify([s EXCEPT !.drawings =
                     [i \in 1..Len(d) |->
                        IF Origin(d[i].id) # 0 /\ ~d[i].locked
                        THEN [d[i] EXCEPT
                                !.points = translatePoints(d[i].points, delta),
                                !.updatedAt = now]
                        ELSE d[i]]],
                  "drawings")
      ELSE IF ia.mode = "marquee"
      THEN notify(applyMarqueeSelection([s EXCEPT !.interaction.current = point],
                                        ia.start, point, ia.baseSelection),
                  "selection")
      ELSE s

pointerMove(s0, input, now) ==
  LET s == [s0 EXCEPT !.lastViewport = input.viewport]
      ia == s.interaction
      d == s.drawings
      point == toPoint(s, input)
      \* Creating
      promoted ==
        \/ now - ia.startedAt >= s.opts.holdToDrawMs
        \/ MovedAtLeast(input.x - ia.downScreen.x, input.y - ia.downScreen.y,
                        s.opts.holdMoveTolerancePx)
      pendingHold == ia.pendingHold /\ ~promoted
      pts == ia.points
      captured ==
        IF ia.tool.continuous
        THEN IF pts = <<>> \/ ~equalPoints(Last(pts), point, input.viewport, 1)
             THEN Append(pts, point) ELSE pts
        ELSE IF ia.tool.maxPoints > 1
        THEN IF Len(pts) = 1 THEN Append(pts, point)
             ELSE [pts EXCEPT ![2] = point]
        ELSE pts
      \* DraggingSelection
      delta == Pt(point.logical - ia.start.logical, point.price - ia.start.price)
      Origin(id) ==
        LET hits == {k \in 1..Len(ia.originPoints) : ia.originPoints[k].id = id}
        IN  IF hits = {} THEN 0 ELSE CHOOSE k \in hits : TRUE
  IN  IF ia.mode = "creating"
      THEN IF pendingHold THEN s
           ELSE notify([s EXCEPT !.interaction.pendingHold = FALSE,
                                 !.interaction.points = captured], "pointer")
      ELSE IF ia.mode = "dragging-selection"
      THEN notify([s EXCEPT !.drawings =
                     [i \in 1..Len(d) |->
                        IF Origin(d[i].id) # 0 /\ ~d[i].locked
                        THEN [d[i] EXCEPT
                                !.points = translatePoints(ia.originPoints[Origin(d[i].id)].points, delta),
                                !.updatedAt = now]
                        ELSE d[i]]],
                  "drawings")
      ELSE IF ia.mode = "marquee"
      THEN notify(applyMarqueeSelection([s EXCEPT !.interaction.current = point],
                                        ia.start, point, ia.baseSelection),
                  "selection")
      ELSE s

\* a pointerUp that ends a marquee by dropping what it selected
pointerUpMarqueeDrops(s0, input, now) ==
  LET s == [s0 EXCEPT !.lastViewport = input.viewport]
  IN  IF s.interaction.mode = "creating"
      THEN finishCreating(s, input, now)
      ELSE IF s.interaction.mode = "dragging-selection"
      THEN notify([pushHistory(s, "move-selection:pointer", s.interaction.beforeSnapshot,
                               cloneEntities(sortedDrawings(s)), now)
                     EXCEPT !.interaction = Idle],
                  "drawings")
      ELSE IF s.interaction.mode = "marquee"
      THEN notify([selectionSet(s, s.interaction.baseSelection)
                     EXCEPT !.interaction = Idle], "selection")
      ELSE s

pointerUp(s0, input, now) ==
  LET s == [s0 EXCEPT !.lastViewport = input.viewport]
  IN  IF s.interaction.mode = "creating"
      THEN finishCreating(s, input, now)
      ELSE IF s.interaction.mode = "dragging-selection"
      THEN notify([pushHistory(s, "move-selection:pointer", s.interaction.beforeSnapshot,
                               cloneEntities(sortedDrawings(s)), now)
                     EXCEPT !.interaction = Idle],
                  "drawings")
      ELSE IF s.interaction.mode = "marquee"
      THEN notify([s EXCEPT !.interaction = Idle], "selection")
      ELSE s

undo(s) ==
  LET h == historyUndo([undoStack |-> s.undoStack, redoStack |-> s.redoStack])
  IN  IF s.undoStack = <<>> THEN s
      ELSE notify(applyDrawings([s EXCEPT !.undoStack = h.undoStack,
                                          !.redoStack = h.redoStack],
                                Last(s.undoStack).before),
                  "history")

redo(s) ==
  LET h == historyRedo([undoStack |-> s.undoStack, redoStack |-> s.redoStack])
  IN  IF s.redoStack = <<>> THEN s
      ELSE notify(applyDrawings([s EXCEPT !.undoStack = h.undoStack,
                                          !.redoStack = h.redoStack],
                                Last(s.redoStack).after),
                  "history")

RECURSIVE MapDeleteAll(_, _)
MapDeleteAll(d, ids) ==
  IF ids = <<>> THEN d
  ELSE MapDelete(MapDeleteAll(d, SubSeq(ids, 1, Len(ids) - 1)), Last(ids))

\* a deletion that spares the locked entities of the selection
deleteUnlockedSelection(s, now) ==
  LET Unlocked(id) == ~MapGet(s.drawings, id).locked
      ids == SelectSeq(activeSelectionIds(s), Unlocked)
      before == cloneEntities(sortedDrawings(s))
      t == [selectionSet([s EXCEPT !.drawings = MapDeleteAll(@, ids)], <<>>)
              EXCEPT !.interaction = Idle]
      after == cloneEntities(sortedDrawings(t))
  IN  IF ids = <<>> THEN s
      ELSE notify(pushHistory(t, "delete-selection", before, after, now), "drawings")

deleteSelection(s, now) ==
  LET ids == activeSelectionIds(s)
      before == cloneEntities(sortedDrawings(s))
      t == [selectionSet([s EXCEPT !.drawings = MapDeleteAll(@, ids)], <<>>)
              EXCEPT !.interaction = Idle]
      after == cloneEntities(sortedDrawings(t))
  IN  IF ids = <<>> THEN s
      ELSE notify(pushHistory(t, "delete-selection", before, after, now), "drawings")

selectAll(s) ==
  LET list == sortedDrawings(s)
  IN  notify(selectionSet(s, [i \in 1..Len(list) |-> list[i].id]), "selection")

clearSelection(s) == notify(selectionSet(s, <<>>), "selection")

\* a setVisibility that removes the entities it hides
setVisibilityRemoves(s, ids, visible, now) ==
  LET before == cloneEntities(sortedDrawings(s))
      Stays(e) == visible \/ ~Contains(ids, e.id)
      kept == SelectSeq(s.drawings, Stays)
      t == [s EXCEPT !.drawings =
              [i \in 1..Len(kept) |->
                 IF Contains(ids, kept[i].id)
                 THEN [kept[i] EXCEPT !.visible = visible, !.updatedAt = now]
                 ELSE kept[i]]]
      after == cloneEntities(sortedDrawings(t))
  IN  IF ids = <<>> THEN s
      ELSE notify(pushHistory(t, "visibility", before, after, now), "drawings")

setVisibility(s, ids, visible, now) ==
  LET before == cloneEntities(sortedDrawings(s))
      d == s.drawings
      t == [s EXCEPT !.drawings =
              [i \in 1..Len(d) |->
                 IF Contains(ids, d[i].id)
                 THEN [d[i] EXCEPT !.visible = visible, !.updatedAt = now]
                 ELSE d[i]]]
      after == cloneEntities(sortedDrawings(t))
  IN  IF ids = <<>> THEN s
      ELSE notify(pushHistory(t, "visibility", before, after, now), "drawings")

setLocked(s, ids, locked, now) ==
  LET before == cloneEntities(sortedDrawings(s))
      d == s.drawings
      t == [s EXCEPT !.drawings =
              [i \in 1..Len(d) |->
                 IF Contains(ids, d[i].id)
                 THEN [d[i] EXCEPT !.locked = locked, !.updatedAt = now]
                 ELSE d[i]]]
      after == cloneEntities(sortedDrawings(t))
  IN  IF ids = <<>> THEN s
      ELSE notify(pushHistory(t, "lock", before, after, now), "drawings")

RECURSIVE Reorder(_, _, _, _, _)
\* the loops of bringToFront (pre = 1: z += 1 before the assignment) and of
\* sendToBack (pre = 0: z += 1 after it), over ids from the first on
Reorder(d, ids, z, pre, now) ==
  IF ids = <<>> THEN d
  ELSE IF ~MapHas(d, Head(ids)) THEN Reorder(d, Tail(ids), z, pre, now)
  ELSE Reorder(MapSet(d, [MapGet(d, Head(ids)) EXCEPT !.zIndex = z + pre, !.updatedAt = now]),
               Tail(ids), z + 1, pre, now)

bringToFront(s, ids, now) ==
  LET before == cloneEntities(sortedDrawings(s))
      t == [s EXCEPT !.drawings = Reorder(@, ids, highestZ(s), 1, now)]
      normalized == normalizeZ(sortedDrawings(t))
      u == applyDrawings(t, normalized)
      after == cloneEntities(sortedDrawings(u))
  IN  IF ids = <<>> THEN s
      ELSE notify(pushHistory(u, "bring-to-front", before, after, now), "drawings")

\* a sendToBack that numbers the listed entities from 0 on
sendToBackFromZero(s, ids, now) ==
  LET before == cloneEntities(sortedDrawings(s))
      t == [s EXCEPT !.drawings = Reorder(@, ids, 0, 0, now)]
      normalized == normalizeZ(sortedDrawings(t))
      u == applyDrawings(t, normalized)
      after == cloneEntities(sortedDrawings(u))
  IN  IF ids = <<>> THEN s
      ELSE notify(pushHistory(u, "send-to-back", before, after, now), "drawings")

sendToBack(s, ids, now) ==
  LET before == cloneEntities(sortedDrawings(s))
      t == [s EXCEPT !.drawings = Reorder(@, ids, -Len(ids), 0, now)]
      normalized == normalizeZ(sortedDrawings(t))
      u == applyDrawings(t, normalized)
      after == cloneEntities(sortedDrawings(u))
  IN  IF ids = <<>> THEN s
      ELSE notify(pushHistory(u, "send-to-back", before, after, now), "drawings")

duplicateSelection(s, now) ==
  LET ids == activeSelectionIds(s)
      before == cloneEntities(sortedDrawings(s))
      delta == Pt(s.lastViewport.logicalPerPixel * DuplicateOffsetPx,
                  s.lastViewport.pricePerPixel * (-DuplicateOffsetPx))
      r == Duplicate(s, ids, delta, now)
      t == selectionSet(r.s, r.ids)
      after == cloneEntities(sortedDrawings(t))
  IN  IF ids = <<>> THEN s
      ELSE notify(pushHistory(t, "duplicate-selection", before, after, now), "drawings")

\* an export of the visible entities only
exportVisibleSnapshot(s) ==
  LET Visible(e) == e.visible
  IN  [version |-> "1",
       drawings |-> SelectSeq(cloneEntities(sortedDrawings(s)), Visible),
       groups |-> <<>>,
       prefs |-> [activeTool |-> s.activeTool, snapMode |-> s.opts.snapMode]]

exportSnapshot(s) ==
  [version |-> "1",
   drawings |-> cloneEntities(sortedDrawings(s)),
   groups |-> <<>>,
   prefs |-> [activeTool |-> s.activeTool, snapMode |-> s.opts.snapMode]]

\* an import that clears the selection before it reads the version
importSnapshotEager(s, snapshot) ==
  IF snapshot.version # "1"
  THEN throw(selectionSet(s, <<>>), "Unsupported snapshot version")
  ELSE notify([selectionSet([applyDrawings(s, snapshot.drawings) EXCEPT
                               !.activeTool = snapshot.prefs.activeTool,
                               !.opts.snapMode = snapshot.prefs.snapMode], <<>>)
                 EXCEPT !.interaction = Idle, !.undoStack = <<>>, !.redoStack = <<>>],
              "import")

\* an import that leaves the interaction as it is
importSnapshotKeepInteraction(s, snapshot) ==
  IF snapshot.version # "1"
  THEN throw(s, "Unsupported snapshot version")
  ELSE notify([selectionSet([applyDrawings(s, snapshot.drawings) EXCEPT
                               !.activeTool = snapshot.prefs.activeTool,
                               !.opts.snapMode = snapshot.prefs.snapMode], <<>>)
                 EXCEPT !.undoStack = <<>>, !.redoStack = <<>>],
              "import")

importSnapshot(s, snapshot) ==
  IF snapshot.version # "1"
  THEN throw(s, "Unsupported snapshot version")
  ELSE LET t == applyDrawings(s, snapshot.drawings)
           u == selectionSet([t EXCEPT !.activeTool = snapshot.prefs.activeTool,
                                       !.opts.snapMode = snapshot.prefs.snapMode],
                             <<>>)
       IN  notify([u EXCEPT !.interaction = Idle, !.undoStack = <<>>, !.redoStack = <<>>],
                  "import")

ToLowerCase(key) == IF key = "Z" THEN "z" ELSE key

modifierUndo(input) == input.ctrlKey \/ input.metaKey

\* a keyDown whose Escape ends a drag the way pointerUp does, recording it
keyDownEscapeRecords(s, input, now) ==
  LET isUndo == modifierUndo(input) /\ ToLowerCase(input.key) = "z"
      isRedo == modifierUndo(input) /\ ToLowerCase(input.key) = "y"
  IN  IF isUndo THEN undo(s)
      ELSE IF isRedo THEN redo(s)
      ELSE IF input.key = "Escape" /\ s.interaction.mode = "dragging-selection"
      THEN notify([pushHistory(s, "move-selection:pointer", s.interaction.beforeSnapshot,
                               cloneEntities(sortedDrawings(s)), now)
                     EXCEPT !.interaction = Idle], "keyboard")
      ELSE IF input.key = "Escape" THEN notify([s EXCEPT !.interaction = Idle], "keyboard")
      ELSE IF input.key \in {"Delete", "Backspace"} THEN deleteSelection(s, now)
      ELSE IF input.key = "ArrowRight" THEN keyboardMoveSelection(s, 1, 0, now)
      ELSE s

keyDown(s, input, now) ==
  LET isUndo == modifierUndo(input) /\ ToLowerCase(input.key) = "z"
      isRedo == /\ modifierUndo(input)
                /\ \/ (input.shiftKey /\ ToLowerCase(input.key) = "z")
                   \/ ToLowerCase(input.key) = "y"
  IN  IF isUndo THEN undo(s)
      ELSE IF isRedo THEN redo(s)
      ELSE IF input.key = "Escape" THEN notify([s EXCEPT !.interaction = Idle], "keyboard")
      ELSE IF input.key \in {"Delete", "Backspace"} THEN deleteSelection(s, now)
      ELSE IF (input.ctrlKey \/ input.metaKey) /\ ToLowerCase(input.key) = "a" THEN selectAll(s)
      ELSE IF input.key = "ArrowLeft" THEN keyboardMoveSelection(s, -1, 0, now)
      ELSE IF input.key = "ArrowRight" THEN keyboardMoveSelection(s, 1, 0, now)
      ELSE IF input.key = "ArrowUp" THEN keyboardMoveSelection(s, 0, -1, now)
      ELSE IF input.key = "ArrowDown" THEN keyboardMoveSelection(s, 0, 1, now)
      ELSE IF (input.ctrlKey \/ input.metaKey) /\ ToLowerCase(input.key) = "d" THEN duplicateSelection(s, now)
      ELSE s

\* reportFrame(frameMs): the frame metrics are no part of s
reportFrame(s, frameMs) == notify(s, "metrics")

\* activeSelectionIds, as getState().selection.ids shows it
stateView(s) ==
  [activeTool |-> s.activeTool,
   drawings |-> cloneEntities(sortedDrawings(s)),
   selection |-> [ids |-> activeSelectionIds(s), primaryId |-> s.primaryId],
   interactionMode |-> interactionMode(s),
   history |-> [undoDepth |-> Len(s.undoStack), redoDepth |-> Len(s.redoStack)]]

----------------------------------------------------------------------------
(* The inputs of the model *)

View(lpp, ppp) == [logicalPerPixel |-> lpp, pricePerPixel |-> ppp]

\* the chart's scale while the pointer is used; the engine starts with (1, 1)
ChartView == View(2, 1)

\* chart points 8 px apart under ChartView
Points == {Pt(0, 0), Pt(16, 0), Pt(32, 0), Pt(16, 8)}

Plain == <<"mouse", 0, FALSE, FALSE>>
Shift == <<"mouse", 0, TRUE, FALSE>>
Alt == <<"mouse", 0, FALSE, TRUE>>
RightButton == <<"mouse", 2, FALSE, FALSE>>
Touch == <<"touch", 0, FALSE, FALSE>>
Pen == <<"pen", 0, FALSE, FALSE>>

\* pointerType, button, shiftKey, altKey
Modifiers == {Plain, Shift, Alt, RightButton, Touch}

\* a PointerInput: the host converts the pixel under the pointer to a chart point
Pointer(point, viewport, m) ==
  [x |-> point.logical \div viewport.logicalPerPixel,
   y |-> point.price \div viewport.pricePerPixel,
   logical |-> point.logical, price |-> point.price,
   viewport |-> viewport,
   pointerType |-> m[1], button |-> m[2], shiftKey |-> m[3], altKey |-> m[4]]

PointerInputs == {Pointer(p, ChartView, m) : p \in Points, m \in Modifiers}

\* pointerMove and pointerUp read no modifier and no button
PlainInputs == {Pointer(p, ChartView, Plain) : p \in Points}

Key(key, ctrlKey, shiftKey) ==
  [key |-> key, ctrlKey |-> ctrlKey, metaKey |-> FALSE, shiftKey |-> shiftKey]

KeyInputs ==
  { Key("z", TRUE, FALSE), Key("Z", TRUE, TRUE), Key("y", TRUE, FALSE),
    Key("Escape", FALSE, FALSE), Key("Delete", FALSE, FALSE),
    Key("a", TRUE, FALSE), Key("d", TRUE, FALSE),
    Key("ArrowRight", FALSE, FALSE), Key("ArrowDown", TRUE, FALSE) }

\* a continuous tool an extension registers
HighlighterTool == [Tool("highlighter", 2, 2) EXCEPT !.continuous = TRUE]

CustomTools == {RiskTool, HighlighterTool}

\* "eraser" is no tool
ToolChoices == {"cursor", "trend_line", "highlighter", "eraser"}

OptionChoices ==
  { [snapMode |-> "strong"],
    [defaultStyle |-> [strokeColor |-> "#ff0000"]] }

\* an id no entity has
UnknownId == 99

Entity(id, tool, points, zIndex, locked) ==
  [id |-> id, tool |-> tool, points |-> points, style |-> DEFAULT_STYLE,
   text |-> IF tool = "text" THEN "Text" ELSE "",
   visible |-> TRUE, locked |-> locked, zIndex |-> zIndex, metadata |-> Empty,
   createdAt |-> 0, updatedAt |-> 0]

Snapshot(version, list, tool, snapMode) ==
  [version |-> version, drawings |-> list, groups |-> <<>>,
   prefs |-> [activeTool |-> tool, snapMode |-> snapMode]]

\* two lines a host saved: listed out of paint order, zIndex with gaps
SavedLines ==
  Snapshot("1", << Entity(12, "ray", <<Pt(32, 0), Pt(32, 8)>>, 5, TRUE),
                   Entity(11, "trend_line", <<Pt(0, 0), Pt(32, 0)>>, 2, FALSE) >>,
           "cursor", "weak")

SavedText ==
  Snapshot("1", << Entity(13, "text", <<Pt(16, 0)>>, 0, FALSE) >>, "trend_line", "off")

\* a snapshot of another format version
SavedV2 ==
  Snapshot("2", << Entity(11, "trend_line", <<Pt(0, 0), Pt(32, 0)>>, 0, FALSE) >>,
           "horizontal_line", "strong")

StoredSnapshots == {SavedLines, SavedText, SavedV2}

\* the ids an id list may name: those of the entities, and an unknown one
IdLists(s) ==
  LET ids == {s.drawings[i].id : i \in 1..Len(s.drawings)}
  IN  {<<>>, <<UnknownId>>} \cup {<<a>> : a \in ids} \cup {<<a, b>> : a \in ids, b \in ids}

SingleIds(s) ==
  {<<>>, <<UnknownId>>} \cup {<<s.drawings[i].id>> : i \in 1..Len(s.drawings)}

----------------------------------------------------------------------------
(* The engine as a state machine *)

\* whether the host has requestAnimationFrame
supportsRaf == TRUE

\* the engine state the handlers are applied to
Cur ==
  [activeTool |-> activeTool, toolRegistry |-> toolRegistry, opts |-> opts,
   drawings |-> drawings, selection |-> selection, primaryId |-> primaryId,
   interaction |-> interaction, undoStack |-> undoStack, redoStack |-> redoStack,
   lastViewport |-> lastViewport, nextId |-> nextId,
   historyLimit |-> HistoryLimit, reasons |-> <<>>, thrown |-> ""]

\* what a subscriber's callback does with an event: a passive one reads it, a
\* "clear-on-tool" one calls engine.clearSelection() when the reason is "tool"
Callback(kind, s, event) ==
  IF kind = "clear-on-tool" /\ event.reason = "tool" THEN clearSelection(s) ELSE s

\* the engine in the middle of a call: s with the notifications the handler
\* still has to make in s.reasons, and the notification state
InCall(r) ==
  [s |-> r, revision |-> revision, emitQueued |-> emitQueued, scheduled |-> scheduled,
   queuedReason |-> queuedReason, emitted |-> emitted, received |-> received,
   notified |-> <<>>]

RECURSIVE emitTo(_, _, _), notifyEach(_, _)

\* emit(reason): the event is built once, from the state at that moment
emit(n, reason) ==
  emitTo([n EXCEPT !.emitted = [count |-> @.count + 1, reason |-> reason,
                                revision |-> n.revision]],
         [reason |-> reason, revision |-> n.revision], 1)

\* a notify that asks for a frame each time, one pending or not
notifyEachTime(n, reason) ==
  LET m == [n EXCEPT !.revision = @ + 1, !.notified = Append(@, reason)]
  IN  IF ~m.s.opts.emitOnAnimationFrame \/ ~supportsRaf
      THEN emit(m, reason)
      ELSE [m EXCEPT !.queuedReason = reason, !.emitQueued = TRUE,
                     !.scheduled = @ + 1]

\* notify(reason); the requestAnimationFrame callback is Frame below
notify1(n, reason) ==
  LET m == [n EXCEPT !.revision = @ + 1, !.notified = Append(@, reason)]
  IN  IF ~m.s.opts.emitOnAnimationFrame \/ ~supportsRaf
      THEN emit(m, reason)
      ELSE [m EXCEPT !.queuedReason = reason, !.emitQueued = TRUE,
                     !.scheduled = IF m.emitQueued THEN @ ELSE @ + 1]

\* the notify calls of a handler, in order
notifyEach(n, reasons) ==
  IF reasons = <<>> THEN n
  ELSE notifyEach(notify1(n, Head(reasons)), Tail(reasons))

\* the loop of emit from subscriber k on: a callback that calls the engine
\* runs that call, its notifications included, before the loop goes on to the
\* next subscriber with the same event
emitTo(n, event, k) ==
  IF k > Len(subscribers) THEN n
  ELSE LET t == Callback(subscribers[k], [n.s EXCEPT !.reasons = <<>>], event)
           got == [n EXCEPT !.received[k] = Append(@, event.revision), !.s = t]
       IN  emitTo(notifyEach(got, t.reasons), event, k + 1)

\* a call of the engine returns, leaving n
Returned(op, thrown, n) ==
  /\ activeTool' = n.s.activeTool
  /\ toolRegistry' = n.s.toolRegistry
  /\ opts' = n.s.opts
  /\ drawings' = n.s.drawings
  /\ selection' = n.s.selection
  /\ primaryId' = n.s.primaryId
  /\ interaction' = n.s.interaction
  /\ undoStack' = n.s.undoStack
  /\ redoStack' = n.s.redoStack
  /\ lastViewport' = n.s.lastViewport
  /\ nextId' = n.s.nextId
  /\ revision' = n.revision
  /\ emitQueued' = n.emitQueued
  /\ scheduled' = n.scheduled
  /\ queuedReason' = n.queuedReason
  /\ emitted' = n.emitted
  /\ received' = n.received
  /\ call' = [op |-> op, thrown |-> thrown, from |-> interaction.mode,
              notified |-> n.notified]
  /\ UNCHANGED <<subscribers, clock, hitQuery, hitResult>>

\* a call of the engine that leaves state r
Do(op, r) ==
  /\ r.nextId <= MaxIds + 1
  /\ Returned(op, r.thrown, notifyEach(InCall(r), r.reasons))

\* createDrawingEngine(options)
Constructed(options) ==
  LET o == [Spread(DEFAULT_OPTIONS, options) EXCEPT
              !.defaultStyle = IF "defaultStyle" \in DOMAIN options
                               THEN Spread(DEFAULT_OPTIONS.defaultStyle, options.defaultStyle)
                               ELSE DEFAULT_OPTIONS.defaultStyle]
      registry == [id \in {BUILTIN_TOOLS[i].id : i \in 1..Len(BUILTIN_TOOLS)} |->
                     BUILTIN_TOOLS[CHOOSE i \in 1..Len(BUILTIN_TOOLS) : BUILTIN_TOOLS[i].id = id]]
  IN  [activeTool |-> IF o.initialTool \in DOMAIN registry THEN o.initialTool ELSE "cursor",
       toolRegistry |-> registry, opts |-> o,
       drawings |-> <<>>, selection |-> <<>>, primaryId |-> NoId,
       interaction |-> Idle, undoStack |-> <<>>, redoStack |-> <<>>,
       lastViewport |-> View(1, 1), nextId |-> 1,
       historyLimit |-> options.historyLimit, reasons |-> <<>>, thrown |-> ""]

\* the options the host constructs the engine with
HostOptions ==
  [emitOnAnimationFrame |-> FALSE, historyLimit |-> HistoryLimit,
   holdToDrawMs |-> HoldToDrawMs]

NoHitQuery == [entity |-> Entity(1, "cursor", <<>>, 0, FALSE), point |-> Pt(0, 0),
               viewport |-> View(1, 1), tolerancePx |-> 0]

\* the engine the host has just constructed
Started ==
  LET e == Constructed(HostOptions)
  IN  /\ activeTool = e.activeTool
      /\ toolRegistry = e.toolRegistry
      /\ opts = e.opts
      /\ drawings = e.drawings
      /\ selection = e.selection
      /\ primaryId = e.primaryId
      /\ interaction = e.interaction
      /\ undoStack = e.undoStack
      /\ redoStack = e.redoStack
      /\ lastViewport = e.lastViewport
      /\ nextId = e.nextId
      /\ revision = 0
      /\ emitQueued = FALSE
      /\ scheduled = 0
      /\ queuedReason = "drawings"
      /\ emitted = [count |-> 0, reason |-> "", revision |-> 0]
      /\ subscribers = <<>>
      /\ received = <<>>
      /\ clock = 0
      /\ call = [op |-> "createDrawingEngine", thrown |-> "", from |-> "idle",
                 notified |-> <<>>]

Init ==
  /\ Started
  /\ hitQuery = NoHitQuery
  /\ hitResult = NoHit

\* time passes between two calls
Tick ==
  /\ clock < MaxClock
  /\ clock' = clock + 1
  /\ UNCHANGED <<engineVars, call, hitQuery, hitResult>>

SetTool(tool) == Do("setTool", setTool(Cur, tool))
SetOptions(nextOptions) == Do("setOptions", setOptions(Cur, nextOptions))
RegisterTool(definition) == Do("registerTool", registerTool(Cur, definition))
PointerDown(input) == Do("pointerDown", pointerDown(Cur, input, clock))
PointerMove(input) == Do("pointerMove", pointerMove(Cur, input, clock))
PointerUp(input) == Do("pointerUp", pointerUp(Cur, input, clock))
KeyDown(input) == Do("keyDown", keyDown(Cur, input, clock))
Undo == Do("undo", undo(Cur))
Redo == Do("redo", redo(Cur))
DeleteSelection == Do("deleteSelection", deleteSelection(Cur, clock))
SelectAll == Do("selectAll", selectAll(Cur))
ClearSelection == Do("clearSelection", clearSelection(Cur))
SetVisibility(ids, visible) == Do("setVisibility", setVisibility(Cur, ids, visible, clock))
SetLocked(ids, locked) == Do("setLocked", setLocked(Cur, ids, locked, clock))
BringToFront(ids) == Do("bringToFront", bringToFront(Cur, ids, clock))
SendToBack(ids) == Do("sendToBack", sendToBack(Cur, ids, clock))
DuplicateSelection == Do("duplicateSelection", duplicateSelection(Cur, clock))
ImportSnapshot(snapshot) == Do("importSnapshot", importSnapshot(Cur, snapshot))

\* the snapshots a host may import: stored ones, and what the engine exports now
ImportChoices == StoredSnapshots \cup {exportSnapshot(Cur)}

\* the host has made fewer than max notified calls
Within(max) == revision < max

\* any call in any order
Next ==
  \/ Tick
  \/ \E tool \in ToolChoices : Within(MaxRevision) /\ SetTool(tool)
  \/ \E o \in OptionChoices : Within(MaxRevision) /\ SetOptions(o)
  \/ \E definition \in CustomTools : Within(MaxRevision) /\ RegisterTool(definition)
  \/ \E input \in PointerInputs : Within(MaxRevision) /\ PointerDown(input)
  \/ \E input \in PlainInputs : Within(MaxRevision) /\ PointerMove(input)
  \/ \E input \in PlainInputs : Within(MaxRevision) /\ PointerUp(input)
  \/ \E input \in KeyInputs : Within(MaxRevision) /\ KeyDown(input)
  \/ Within(MaxRevision) /\ Undo
  \/ Within(MaxRevision) /\ Redo
  \/ Within(MaxRevision) /\ DeleteSelection
  \/ Within(MaxRevision) /\ SelectAll
  \/ Within(MaxRevision) /\ ClearSelection
  \/ \E ids \in SingleIds(Cur), visible \in BOOLEAN :
       Within(MaxRevision) /\ SetVisibility(ids, visible)
  \/ \E ids \in SingleIds(Cur), locked \in BOOLEAN :
       Within(MaxRevision) /\ SetLocked(ids, locked)
  \/ \E ids \in IdLists(Cur) : Within(MaxRevision) /\ BringToFront(ids)
  \/ \E ids \in IdLists(Cur) : Within(MaxRevision) /\ SendToBack(ids)
  \/ Within(MaxRevision) /\ DuplicateSelection
  \/ \E snapshot \in ImportChoices : Within(MaxRevision) /\ ImportSnapshot(snapshot)

Spec == Init /\ [][Next]_vars

----------------------------------------------------------------------------
(* hitTestEntity as a function of its arguments *)

HitTools ==
  {"trend_line", "ray", "extended_line", "rectangle", "horizontal_line",
   "vertical_line", "brush", "text"}

ControlPoints == {Pt(0, 0), Pt(16, 0), Pt(16, 8)}

ControlPointLists ==
  {<<a>> : a \in ControlPoints} \cup {<<a, b>> : a \in ControlPoints, b \in ControlPoints}

QueryPoints == {Pt(0, 0), Pt(8, 0), Pt(16, 0), Pt(8, 4), Pt(16, 8), Pt(40, 0), Pt(0, 20)}

HitViewports == {View(1, 1), View(2, 1)}

HitTolerances == {HitTolerancePxMouse, HitTolerancePxTouch}

HitQueries ==
  { [entity |-> [Entity(1, tool, points, 0, FALSE) EXCEPT !.visible = visible],
     point |-> point, viewport |-> viewport, tolerancePx |-> tolerancePx] :
      tool \in HitTools, points \in ControlPointLists, visible \in BOOLEAN,
      point \in QueryPoints, viewport \in HitViewports, tolerancePx \in HitTolerances }

\* no answer yet
Pending == [kind |-> "pending"]

InitHit ==
  /\ Started
  /\ hitQuery \in HitQueries
  /\ hitResult = Pending

HitTest ==
  /\ hitResult = Pending
  /\ hitResult' = hitTestEntity(hitQuery.entity, hitQuery.point, hitQuery.viewport,
                                hitQuery.tolerancePx)
  /\ UNCHANGED <<engineVars, clock, call, hitQuery>>

NextHit == HitTest

SpecHit == InitHit /\ [][NextHit]_vars

\* control point k (0-based) of the queried entity is within the tolerance of
\* the query point: (dl / lpp)^2 + (dp / ppp)^2 <= tol^2, cross-multiplied
NearHandle(k) ==
  LET h == hitQuery.entity.points[k + 1]
      v == hitQuery.viewport
      dl == (hitQuery.point.logical - h.logical) * v.pricePerPixel
      dp == (hitQuery.point.price - h.price) * v.logicalPerPixel
      lim == hitQuery.tolerancePx * v.logicalPerPixel * v.pricePerPixel
  IN  dl * dl + dp * dp <= lim * lim

NearHandles == {k \in 0..(Len(hitQuery.entity.points) - 1) : NearHandle(k)}

QueryBodyHit ==
  BodyHit(hitQuery.entity, hitQuery.point, hitQuery.viewport, hitQuery.tolerancePx)

\* C10: on a visible entity hitTestEntity answers "handle" with the index of
\* the first control point within tolerance whenever some control point is
\* within tolerance, whether or not the body test matches too; it answers
\* "body" only when no control point is within tolerance and the body test
\* of the entity's tool matches.
C10_HandleBeforeBody ==
  (hitResult # Pending /\ hitQuery.entity.visible) =>
    /\ NearHandles # {} =>
         /\ hitResult.kind = "handle"
         /\ hitResult.handleIndex \in NearHandles
         /\ \A k \in NearHandles : hitResult.handleIndex <= k
    /\ hitResult.kind = "body" => (NearHandles = {} /\ QueryBodyHit)
    /\ hitResult.kind = "handle" => NearHandles # {}

\* a query within tolerance of two control points and of the body
C10_Witness ==
  /\ hitResult # Pending
  /\ hitQuery.entity.visible
  /\ Cardinality(NearHandles) = 2
  /\ QueryBodyHit
  /\ hitResult = [kind |-> "handle", handleIndex |-> 0]

----------------------------------------------------------------------------
(* Snapshots *)

Ids(list) == {list[i].id : i \in 1..Len(list)}

\* the zIndex values of list are 0..n-1, each used once
ZContiguous(list) ==
  /\ {list[i].zIndex : i \in 1..Len(list)} = 0..(Len(list) - 1)
  /\ \A i, j \in 1..Len(list) : list[i].zIndex = list[j].zIndex => i = j

\* what a round trip keeps of an entity
Listed(e) ==
  [id |-> e.id, tool |-> e.tool, points |-> e.points, style |-> e.style,
   visible |-> e.visible, locked |-> e.locked]

\* C2: importing what exportSnapshot returns into a freshly constructed engine
\* gives the same entities in the same paint order, with the same ids, tools,
\* points, styles and visible and locked flags, and zIndex 0..n-1.
C2_ExportImportRoundTrip ==
  LET r == importSnapshot(Constructed(HostOptions), exportSnapshot(Cur))
      got == sortedDrawings(r)
      want == sortedDrawings(Cur)
  IN  /\ r.thrown = ""
      /\ Len(got) = Len(want)
      /\ \A i \in 1..Len(want) : Listed(got[i]) = Listed(want[i])
      /\ ZContiguous(got)

\* an engine with a hidden entity under a locked one, after a call that is no import
C2_Witness ==
  /\ Len(drawings) = 2
  /\ \E i, j \in 1..2 : ~drawings[i].visible /\ drawings[j].locked
  /\ call.op = "setVisibility"

\* the state importSnapshot(snapshot) has to leave
ImportedExactly(snapshot) ==
  /\ Len(drawings) = Len(snapshot.drawings)
  /\ ZContiguous(drawings)
  /\ \A i \in 1..Len(snapshot.drawings) :
       \E j \in 1..Len(drawings) :
         [drawings[j] EXCEPT !.zIndex = 0] = [snapshot.drawings[i] EXCEPT !.zIndex = 0]
  /\ \A i, j \in 1..Len(drawings) :
       LET a == MapGet(snapshot.drawings, drawings[i].id)
           b == MapGet(snapshot.drawings, drawings[j].id)
       IN  a.zIndex < b.zIndex => drawings[i].zIndex < drawings[j].zIndex
  /\ activeTool = snapshot.prefs.activeTool
  /\ opts.snapMode = snapshot.prefs.snapMode
  /\ stateView(Cur).selection.ids = <<>>
  /\ stateView(Cur).selection.primaryId = NoId
  /\ interaction = Idle
  /\ stateView(Cur).history.undoDepth = 0
  /\ stateView(Cur).history.redoDepth = 0
  /\ undo(Cur) = Cur
  /\ redo(Cur) = Cur

\* C3: importSnapshot of a version "1" snapshot, in whatever state it is called,
\* leaves exactly the snapshot's entities with zIndex 0..n-1 in the snapshot's
\* zIndex order, the snapshot's activeTool and snapMode, no selection and no
\* primaryId, the Idle interaction and empty history, so undo and redo change nothing.
C3_ImportReplaces ==
  [][\A snapshot \in ImportChoices :
       (snapshot.version = "1" /\ call'.op = "importSnapshot" /\ ImportSnapshot(snapshot)) =>
         ImportedExactly(snapshot)']_vars

\* two saved lines imported in the middle of an interaction
C3_Witness ==
  /\ call = [op |-> "importSnapshot", thrown |-> "", from |-> "dragging-selection",
             notified |-> <<"import">>]
  /\ Len(drawings) = 2
  /\ activeTool = SavedLines.prefs.activeTool

\* C4: importSnapshot of a snapshot whose version is not "1" raises an error and
\* changes nothing: entities, selection, activeTool, snapMode, interaction,
\* history and revision stay, and nothing is emitted.
C4_BadVersionChangesNothing ==
  [][\A snapshot \in ImportChoices :
       (snapshot.version # "1" /\ ImportSnapshot(snapshot)) =>
         (call'.thrown # "" /\ UNCHANGED engineVars)]_vars

\* a refused import in an engine with entities, a selection and history
C4_Witness ==
  /\ call.op = "importSnapshot"
  /\ call.thrown # ""
  /\ drawings # <<>>
  /\ selection # <<>>
  /\ undoStack # <<>>

\* C5: setTool with an id that is not registered fails and changes nothing,
\* and nothing is emitted; setTool with a registered id succeeds.
C5_SetToolChecksRegistry ==
  [][\A tool \in ToolChoices :
       SetTool(tool) =>
         IF tool \in DOMAIN toolRegistry
         THEN call'.thrown = "" /\ activeTool' = tool
         ELSE call'.thrown # "" /\ UNCHANGED engineVars]_vars

\* a refused setTool in the middle of an interaction
C5_Witness ==
  /\ call.op = "setTool"
  /\ call.thrown # ""
  /\ interaction.mode = "marquee"
  /\ drawings # <<>>

----------------------------------------------------------------------------
(* Paint order and duplication *)

\* C6: bringToFront(ids) and sendToBack(ids) with a non-empty id list, whose
\* ids may be unknown, repeated or name every entity, leave the zIndex values
\* of the n entities exactly 0..n-1, each used once, from every reachable state.
C6_ReorderKeepsZContiguous ==
  \A ids \in IdLists(Cur) \ {<<>>} :
    /\ ZContiguous(bringToFront(Cur, ids, clock).drawings)
    /\ ZContiguous(sendToBack(Cur, ids, clock).drawings)

\* the lower of two entities brought to the front
C6_Witness ==
  /\ call.op = "bringToFront"
  /\ Len(drawings) = 2
  /\ drawings[2].id = 11
  /\ ZContiguous(drawings)
  /\ undoStack # <<>>

\* copy is source moved by delta, above every zIndex there was
CopyOf(copy, source, delta, maxZ) ==
  /\ copy.tool = source.tool
  /\ copy.style = source.style
  /\ copy.visible = source.visible
  /\ copy.locked = source.locked
  /\ Len(copy.points) = Len(source.points)
  /\ \A k \in 1..Len(source.points) :
       /\ copy.points[k].logical = source.points[k].logical + delta.logical
       /\ copy.points[k].price = source.points[k].price + delta.price
  /\ copy.zIndex > maxZ

\* after holds before and one copy of each of sources, the copies selected
CopiesMade(before, after, selected, sources, delta) ==
  LET fresh == {j \in 1..Len(after) : after[j].id \notin Ids(before)}
      maxZ == highestZ([drawings |-> before])
  IN  /\ Len(after) = Len(before) + Len(sources)
      /\ \A i, j \in 1..Len(after) : after[i].id = after[j].id => i = j
      /\ \A i \in 1..Len(before) : \E j \in 1..Len(after) : after[j] = before[i]
      /\ Cardinality(fresh) = Len(sources)
      /\ \E f \in [1..Len(sources) -> fresh] :
           /\ \A a, b \in 1..Len(sources) : f[a] = f[b] => a = b
           /\ \A a \in 1..Len(sources) :
                CopyOf(after[f[a]], MapGet(before, sources[a]), delta, maxZ)
      /\ SeqToSet(selected) = {after[j].id : j \in fresh}
      /\ Len(selected) = Len(sources)

\* the fixed pixel offset at the scale of viewport
PixelOffset(viewport, px) ==
  Pt(viewport.logicalPerPixel * px, viewport.pricePerPixel * (-px))

\* the entities selected once an unshifted pointerDown has hit a draggable
\* entity with the cursor tool, none otherwise
DragSources(input) ==
  LET s == [Cur EXCEPT !.lastViewport = input.viewport]
      tolerance == hitTolerance(s, input)
      hit == topMostHit(s, IndexItems(sortedDrawings(s), input.viewport, tolerance),
                        toPoint(s, input), input.viewport, tolerance)
      ids == IF Contains(selection, hit.id) THEN activeSelectionIds(s) ELSE <<hit.id>>
  IN  IF /\ activeTool = "cursor"
         /\ hit.kind # "null"
         /\ ~input.shiftKey
         /\ input.button # 2
         /\ \E i \in 1..Len(ids) : ~MapGet(drawings, ids[i]).locked
      THEN ids
      ELSE <<>>

\* the pointer inputs with the alt key down
AltInputs == {input \in PointerInputs : input.altKey}

\* C7: duplicateSelection, and an alt-modified pointerDown on a draggable hit,
\* with N entities selected add exactly N entities: each copy has a new id of
\* its own, the tool, style and flags of its source, every point moved by one
\* delta (a fixed pixel offset at the viewport's scale) and a zIndex above every
\* earlier zIndex; then the selection is the N copies and the originals are as
\* they were. Stated of the call made in each reachable state.
C7_DuplicateAddsCopies ==
  /\ activeSelectionIds(Cur) # <<>> =>
       CopiesMade(drawings, duplicateSelection(Cur, clock).drawings,
                  stateView(duplicateSelection(Cur, clock)).selection.ids,
                  activeSelectionIds(Cur),
                  PixelOffset(lastViewport, DuplicateOffsetPx))
  /\ \A input \in AltInputs :
       DragSources(input) # <<>> =>
         CopiesMade(drawings, pointerDown(Cur, input, clock).drawings,
                    stateView(pointerDown(Cur, input, clock)).selection.ids,
                    DragSources(input),
                    PixelOffset(input.viewport, AltDragOffsetPx))

\* duplicateSelection with two entities selected
C7_Witness ==
  /\ call.op = "duplicateSelection"
  /\ Len(drawings) = 4
  /\ Len(selection) = 2
  /\ \A i \in 1..2 : selection[i] \notin {11, 12}

----------------------------------------------------------------------------
(* An editing session: entities are created, moved and deleted by completed
   gestures and keys, and undo and redo are asked for between them *)

OpsPoints == {Pt(0, 0), Pt(16, 8)}

OpsInputs == {Pointer(p, ChartView, Plain) : p \in OpsPoints}

OpsKeys == {Key("ArrowRight", FALSE, FALSE), Key("Delete", FALSE, FALSE)}

OpsTools == {"cursor", "horizontal_line"}

AtRest == interaction.mode = "idle"

NextOps ==
  \/ Tick
  \/ \E tool \in OpsTools : Within(MaxOpsRevision) /\ AtRest /\ SetTool(tool)
  \/ \E input \in OpsInputs : Within(MaxOpsRevision) /\ AtRest /\ PointerDown(input)
  \/ \E input \in OpsInputs : Within(MaxOpsRevision) /\ ~AtRest /\ PointerMove(input)
  \/ \E input \in OpsInputs : Within(MaxOpsRevision) /\ ~AtRest /\ PointerUp(input)
  \/ \E input \in OpsKeys : Within(MaxOpsRevision) /\ AtRest /\ KeyDown(input)
  \/ Within(MaxOpsRevision) /\ AtRest /\ Undo
  \/ Within(MaxOpsRevision) /\ AtRest /\ Redo

SpecOps == Init /\ [][NextOps]_vars

\* the same entities in the same paint order, whatever their zIndex values
SameEntities(a, b) ==
  /\ Len(a) = Len(b)
  /\ \A i \in 1..Len(a) : Listed(a[i]) = Listed(b[i])

\* C1: between completed create, move and delete operations, a redo that
\* follows an undo restores the entities as they were before that undo: same
\* ids, points, styles, flags and paint order, zIndex up to renumbering.
C1_RedoRestoresUndone ==
  (AtRest /\ undoStack # <<>>) =>
    SameEntities(sortedDrawings(redo(undo(Cur))), sortedDrawings(Cur))

----------------------------------------------------------------------------
(* A selecting session: saved lines are imported, selected, duplicated and
   marquee-selected, with undo and redo at any moment *)

SelectDowns ==
  {Pointer(Pt(0, 0), ChartView, Alt), Pointer(Pt(16, 8), ChartView, Shift),
   Pointer(Pt(16, 8), ChartView, Plain)}

SelectMoves == {Pointer(Pt(32, 0), ChartView, Plain)}

NextSelect ==
  \/ Within(MaxSelectRevision) /\ ImportSnapshot(SavedLines)
  \/ \E input \in SelectDowns : Within(MaxSelectRevision) /\ PointerDown(input)
  \/ \E input \in SelectMoves : Within(MaxSelectRevision) /\ PointerMove(input)
  \/ \E input \in SelectMoves : Within(MaxSelectRevision) /\ PointerUp(input)
  \/ Within(MaxSelectRevision) /\ Undo
  \/ Within(MaxSelectRevision) /\ Redo
  \/ Within(MaxSelectRevision) /\ SelectAll
  \/ Within(MaxSelectRevision) /\ DuplicateSelection

SpecSelect == Init /\ [][NextSelect]_vars

\* C8: in every state view, selection.primaryId is none or one of
\* selection.ids, and every one of selection.ids is the id of an entity.
C8_PrimaryIsSelected ==
  LET view == stateView(Cur)
  IN  /\ \/ view.selection.primaryId = NoId
         \/ Contains(view.selection.ids, view.selection.primaryId)
      /\ \A i \in 1..Len(view.selection.ids) : view.selection.ids[i] \in Ids(view.drawings)

----------------------------------------------------------------------------
(* A drawing session: a tool is registered and chosen, and entities are drawn *)

DrawDowns == {Pointer(Pt(0, 0), ChartView, m) : m \in {Plain, Touch, Pen}}

\* the first one is 2 px away from the down position, the others 8 px or more
DrawMoves == {Pointer(p, ChartView, Plain) : p \in {Pt(4, 0), Pt(16, 0), Pt(16, 8)}}

DrawTools == {"highlighter", "trend_line"}

NextDraw ==
  \/ Tick
  \/ Within(MaxDrawRevision) /\ RegisterTool(HighlighterTool)
  \/ \E tool \in DrawTools : Within(MaxDrawRevision) /\ SetTool(tool)
  \/ \E input \in DrawDowns : Within(MaxDrawRevision) /\ PointerDown(input)
  \/ \E input \in DrawMoves : Within(MaxDrawRevision) /\ PointerMove(input)
  \/ \E input \in DrawMoves : Within(MaxDrawRevision) /\ PointerUp(input)

SpecDraw == Init /\ [][NextDraw]_vars

\* the entity a pointerUp step has just committed: the one step that adds an
\* entity under the id nanoid returned
Committed(id) ==
  /\ call'.op = "pointerUp"
  /\ id = nextId
  /\ nextId' = nextId + 1
  /\ MapHas(drawings', id)

\* C9: every entity a creation gesture commits has between minPoints and
\* maxPoints points of its tool, for builtin, continuous and registered tools.
C9_CommittedPointsWithinBounds ==
  [][\A id \in 1..MaxIds :
       Committed(id) =>
         LET entity == MapGet(drawings', id)
             tool == toolRegistry[entity.tool]
         IN  /\ tool.minPoints <= Len(entity.points)
             /\ Len(entity.points) <= tool.maxPoints]_vars

----------------------------------------------------------------------------
(* A marquee session: two saved marks are imported and rubber-band selected *)

\* notified calls of a marquee session (SpecMarquee)
MaxMarqueeRevision == 5

\* a short line and, 8 px to its right, a locked freehand stroke
SavedMarks ==
  Snapshot("1", << Entity(21, "trend_line", <<Pt(16, 4), Pt(20, 6)>>, 0, FALSE),
                   Entity(22, "brush", <<Pt(32, 4), Pt(36, 6)>>, 1, TRUE) >>,
           "cursor", "weak")

\* where a marquee starts: both are more than 6 px away from the marks
MarqueeDowns ==
  {Pointer(Pt(0, 0), ChartView, Plain), Pointer(Pt(0, 0), ChartView, Shift),
   Pointer(Pt(48, 16), ChartView, Plain)}

\* where the pointer is dragged to, the last one after the chart is zoomed out
MarqueeMoves ==
  {Pointer(p, ChartView, Plain) :
     p \in {Pt(0, 0), Pt(14, 3), Pt(22, 6), Pt(22, 8), Pt(39, 8), Pt(40, 8)}}
  \cup {Pointer(Pt(22, 8), View(4, 2), Plain)}

NextMarquee ==
  \/ Within(MaxMarqueeRevision) /\ ImportSnapshot(SavedMarks)
  \/ Within(MaxMarqueeRevision) /\ SelectAll
  \/ \E input \in MarqueeDowns : Within(MaxMarqueeRevision) /\ PointerDown(input)
  \/ \E input \in MarqueeMoves : Within(MaxMarqueeRevision) /\ PointerMove(input)
  \/ \E input \in MarqueeMoves : Within(MaxMarqueeRevision) /\ PointerUp(input)

SpecMarquee == Init /\ [][NextMarquee]_vars

\* every point of the entity, padded by 1 px (2 px for a brush stroke) on each
\* side at the viewport's scale, is inside the rectangle spanned by a and b
FitsMarquee(e, a, b, viewport) ==
  LET px == IF e.tool = "brush" THEN 2 ELSE 1
      padLogical == px * viewport.logicalPerPixel
      padPrice == px * viewport.pricePerPixel
  IN  \A i \in 1..Len(e.points) :
        /\ Min2(a.logical, b.logical) <= e.points[i].logical - padLogical
        /\ e.points[i].logical + padLogical <= Max2(a.logical, b.logical)
        /\ Min2(a.price, b.price) <= e.points[i].price - padPrice
        /\ e.points[i].price + padPrice <= Max2(a.price, b.price)

\* the ids of the entities that fit the marquee as a pointerMove step leaves it
FittingIds ==
  {drawings'[i].id : i \in {k \in 1..Len(drawings') :
     FitsMarquee(drawings'[k], interaction.start, interaction'.current, lastViewport')}}

\* C11: after each pointerMove in Marquee the selection is the base selection
\* united with exactly the entities whose padded point bounding box lies
\* entirely inside the rectangle from the marquee start to the current point.
C11_MarqueeSelectsContained ==
  [][(call'.op = "pointerMove" /\ interaction.mode = "marquee") =>
       /\ interaction'.mode = "marquee"
       /\ interaction'.start = interaction.start
       /\ SeqToSet(selection') = SeqToSet(interaction.baseSelection) \cup FittingIds
       /\ SeqToSet(activeSelectionIds(Cur))' = SeqToSet(selection')]_vars

\* a move whose rectangle holds the line only: the stroke stays selected as
\* part of the base
C11_Witness ==
  /\ call.op = "pointerMove"
  /\ call.from = "marquee"
  /\ interaction.mode = "marquee"
  /\ interaction.baseSelection = <<21, 22>>
  /\ interaction.current = Pt(22, 8)
  /\ SeqToSet(selection) = {21, 22}

----------------------------------------------------------------------------
(* Clicking with the cursor tool *)

\* what topMostHit returns for a pointerDown with this input
HitUnder(input) ==
  LET s == [Cur EXCEPT !.lastViewport = input.viewport]
      tolerance == hitTolerance(Cur, input)
  IN  topMostHit(s, IndexItems(sortedDrawings(s), input.viewport, tolerance),
                 toPoint(s, input), input.viewport, tolerance)

SelectedIds(s) == SeqToSet(activeSelectionIds(s))

\* the alt-drag duplication applies to a pointerDown that hits entity id: alt
\* is held, a drag can start, and one of the entities then selected is unlocked
AltDuplicates(input, id) ==
  /\ input.altKey
  /\ ~input.shiftKey
  /\ input.button # 2
  /\ \E i \in 1..Len(drawings) :
       /\ ~drawings[i].locked
       /\ drawings[i].id \in (IF id \in SelectedIds(Cur) THEN SelectedIds(Cur) ELSE {id})

\* a pointerDown with the cursor tool that hits entity id leaves the selection
\* as a click does: replaced by the entity, left alone, or toggled
ClickSelects(input, id) ==
  LET r == pointerDown(Cur, input, clock)
      before == SelectedIds(Cur)
      after == SelectedIds(r)
  IN  IF input.shiftKey
      THEN /\ (id \in after) = (id \notin before)
           /\ after \ {id} = before \ {id}
      ELSE IF id \notin before
      THEN after = {id} /\ r.primaryId = id
      ELSE after = before /\ r.selection = selection /\ r.primaryId = primaryId

\* C12 as stated: a pointerDown with the cursor tool that hits an entity e,
\* without shift, selects exactly e (primaryId e) if e is not selected and
\* leaves the selection as it is if e is selected; with shift it toggles e and
\* leaves the other selected ids unchanged.
C12_ClickSelects ==
  \A input \in PointerInputs :
    (activeTool = "cursor" /\ HitUnder(input).kind # "null") =>
      ClickSelects(input, HitUnder(input).id)

\* C12, amended: the same for every pointerDown but the one that alt-drags,
\* after which the selection is the copies the duplication has made.
C12_ClickSelectsUnlessAltDrag ==
  \A input \in PointerInputs :
    (activeTool = "cursor" /\ HitUnder(input).kind # "null") =>
      IF AltDuplicates(input, HitUnder(input).id)
      THEN LET r == pointerDown(Cur, input, clock)
           IN  /\ SelectedIds(r) # {}
               /\ SelectedIds(r) \cap Ids(drawings) = {}
               /\ r.primaryId \in SelectedIds(r)
      ELSE ClickSelects(input, HitUnder(input).id)

\* a click on one of two selected lines: both stay selected
C12_Witness ==
  /\ call.op = "pointerDown"
  /\ activeTool = "cursor"
  /\ selection = <<11, 12>>
  /\ primaryId = 12
  /\ revision = 3

----------------------------------------------------------------------------
(* Deleting the selection *)

\* the stacks after one frame has been recorded on top of stack
Recorded(stack, after, limit) ==
  /\ after # <<>>
  /\ after = (IF Len(stack) < limit THEN stack ELSE Tail(stack)) \o <<Last(after)>>

\* C13: deleteSelection removes exactly the selected entities, locked and
\* hidden ones included, leaves the selection empty and the interaction Idle,
\* and records one frame whose undo restores the entities; with nothing
\* selected it changes nothing and notifies nobody.
C13_DeleteRemovesSelected ==
  LET ids == SelectedIds(Cur)
      r == deleteSelection(Cur, clock)
  IN  IF ids = {}
      THEN r = Cur
      ELSE /\ Ids(r.drawings) = Ids(drawings) \ ids
           /\ \A i \in 1..Len(r.drawings) :
                r.drawings[i] = MapGet(drawings, r.drawings[i].id)
           /\ r.selection = <<>>
           /\ r.primaryId = NoId
           /\ r.interaction = Idle
           /\ r.reasons = <<"drawings">>
           /\ r.redoStack = <<>>
           /\ Recorded(undoStack, r.undoStack, HistoryLimit)
           /\ Last(r.undoStack).label = "delete-selection"
           /\ Last(r.undoStack).before = sortedDrawings(Cur)
           /\ Last(r.undoStack).after = sortedDrawings(r)
           /\ SameEntities(sortedDrawings(undo(r)), sortedDrawings(Cur))

\* both saved lines, the locked one included, have been deleted
C13_Witness ==
  /\ call.op = "deleteSelection"
  /\ drawings = <<>>
  /\ selection = <<>>
  /\ undoStack # <<>>
  /\ Last(undoStack).label = "delete-selection"
  /\ \E i \in 1..Len(Last(undoStack).before) : Last(undoStack).before[i].locked

----------------------------------------------------------------------------
(* The undo and redo keys *)

\* C14: keyDown with Ctrl/Cmd+Z performs undo; with Ctrl/Cmd+Shift+Z or
\* Ctrl/Cmd+Y it performs redo: after an undo, Ctrl+Shift+Z restores the
\* undone frame, undoDepth growing by one and redoDepth shrinking by one.
C14_UndoRedoKeys ==
  LET r == keyDown(Cur, Key("Z", TRUE, TRUE), clock)
  IN  /\ keyDown(Cur, Key("z", TRUE, FALSE), clock) = undo(Cur)
      /\ keyDown(Cur, Key("y", TRUE, FALSE), clock) = redo(Cur)
      /\ r = redo(Cur)
      /\ redoStack # <<>> =>
            /\ Len(r.undoStack) = Len(undoStack) + 1
            /\ Len(r.redoStack) = Len(redoStack) - 1
            /\ sortedDrawings(r) = Last(redoStack).after

----------------------------------------------------------------------------
(* Nudging the selection with the arrow keys *)

ArrowRight == Key("ArrowRight", FALSE, FALSE)

\* the selected entities an arrow key moves
Movers == {id \in SelectedIds(Cur) : ~MapGet(drawings, id).locked}

\* C15: an arrow keyDown with at least one unlocked selected entity moves
\* every unlocked selected entity by one pixel's delta and records exactly
\* one frame labelled move-selection:keyboard, so that one undo restores the
\* positions of before the key.
C15_ArrowRecordsOneFrame ==
  LET r == keyDown(Cur, ArrowRight, clock)
      delta == Pt(lastViewport.logicalPerPixel, 0)
  IN  Movers # {} =>
        /\ \A i \in 1..Len(drawings) :
             MapGet(r.drawings, drawings[i].id).points =
               IF drawings[i].id \in Movers
               THEN translatePoints(drawings[i].points, delta)
               ELSE drawings[i].points
        /\ Recorded(undoStack, r.undoStack, HistoryLimit)
        /\ Last(r.undoStack).label = "move-selection:keyboard"
        /\ SameEntities(sortedDrawings(undo(r)), sortedDrawings(Cur))

----------------------------------------------------------------------------
(* The revision counter, in a session where an extension's three-point tool
   is registered and used next to the builtin tools *)

MaxCreateRevision == 5

\* a tool an extension registers: three points, not continuous
TriangleTool == Tool("triangle", 3, 3)

CreateTools == {"triangle", "trend_line", "cursor"}

NextCreate ==
  \/ Tick
  \/ Within(MaxCreateRevision) /\ RegisterTool(TriangleTool)
  \/ \E tool \in CreateTools : Within(MaxCreateRevision) /\ SetTool(tool)
  \/ \E input \in DrawDowns : Within(MaxCreateRevision) /\ PointerDown(input)
  \/ \E input \in DrawMoves : Within(MaxCreateRevision) /\ PointerMove(input)
  \/ \E input \in DrawMoves : Within(MaxCreateRevision) /\ PointerUp(input)
  \/ Within(MaxCreateRevision) /\ Undo

SpecCreate == Init /\ [][NextCreate]_vars

\* C16: every operation that changes the observable state (entities,
\* selection, active tool, interaction mode, history depths) increases the
\* revision and notifies the subscribers, at once or at the next frame; the
\* revision never decreases, undo, redo and import included.
C16_ChangesAreNotified ==
  [][/\ revision' >= revision
     /\ stateView(Cur)' # stateView(Cur) =>
          /\ revision' > revision
          /\ emitted'.count > emitted.count \/ emitQueued']_vars

----------------------------------------------------------------------------
(* Notifications: the host subscribes callbacks, switches the coalescing
   option, changes the tool and the selection, and the animation frames
   arrive in between *)

MaxEmitRevision == 4
MaxSubscribers == 2

SubscriberKinds == {"passive", "clear-on-tool"}

EmitOptions == {[emitOnAnimationFrame |-> TRUE], [emitOnAnimationFrame |-> FALSE]}

\* subscribe(subscriber), while the host sets the engine up
Subscribe(kind) ==
  /\ revision = 0
  /\ Len(subscribers) < MaxSubscribers
  /\ subscribers' = Append(subscribers, kind)
  /\ received' = Append(received, <<>>)
  /\ call' = [op |-> "subscribe", thrown |-> "", from |-> interaction.mode,
              notified |-> <<>>]
  /\ UNCHANGED <<activeTool, toolRegistry, opts, drawings, selection, primaryId,
                 interaction, revision, undoStack, redoStack, lastViewport,
                 emitQueued, scheduled, queuedReason, emitted, nextId, clock, hitQuery,
                 hitResult>>

\* the callback notify handed to requestAnimationFrame
Frame ==
  /\ scheduled > 0
  /\ Returned("requestAnimationFrame", "",
              emit([InCall(Cur) EXCEPT !.emitQueued = FALSE, !.scheduled = @ - 1],
                   queuedReason))

NextEmit ==
  \/ \E kind \in SubscriberKinds : Subscribe(kind)
  \/ \E o \in EmitOptions : Within(MaxEmitRevision) /\ SetOptions(o)
  \/ Within(MaxEmitRevision) /\ SetTool("trend_line")
  \/ Within(MaxEmitRevision) /\ SelectAll
  \/ Frame

SpecEmit == Init /\ [][NextEmit]_vars

\* C17: with coalescing enabled the mutations made between two frames produce
\* one notification, at the next frame, with the reason of the last mutation
\* and the state of that moment; with coalescing disabled every mutation
\* produces exactly one notification before its call returns; whatever the
\* sequence of calls, setOptions switching emitOnAnimationFrame included.
C17_OneNotificationPerFrame ==
  [][/\ call'.op = "requestAnimationFrame" =>
          /\ emitted'.count = emitted.count + 1
          /\ emitted'.reason = Last(call.notified)
          /\ emitted'.revision = revision
     /\ (revision' > revision /\ call'.op # "requestAnimationFrame") =>
          IF opts'.emitOnAnimationFrame
          THEN emitted' = emitted /\ emitQueued'
          ELSE /\ emitted'.count = emitted.count + (revision' - revision)
               /\ emitted'.revision = revision'
     /\ emitted'.count > emitted.count => emitted'.revision > emitted.revision]_vars

\* C18: the revisions of the events a subscriber receives never decrease in
\* the order of delivery, with and without coalescing, also when a subscriber
\* calls a mutating operation of the engine from inside its callback.
C18_RevisionsNonDecreasing ==
  \A k \in 1..Len(received) :
    \A i \in 1..Len(received[k]) - 1 : received[k][i] <= received[k][i + 1]

----------------------------------------------------------------------------
(* Undo and redo in the middle of an interaction *)

\* r has no interaction and selects only entities it has
Settled(r) ==
  /\ r.interaction = Idle
  /\ SeqToSet(r.selection) \subseteq Ids(r.drawings)

\* C19: after an undo or a redo that pops a frame, whatever the interaction
\* it is called in, the interaction is Idle and the selection holds only ids
\* of entities present after the replacement.
C19_UndoRedoSettle ==
  /\ undoStack # <<>> => Settled(undo(Cur))
  /\ redoStack # <<>> => Settled(redo(Cur))

----------------------------------------------------------------------------
(* The history stacks *)

\* the step records a frame
Records ==
  /\ call'.op \notin {"undo", "redo"}
  /\ undoStack' # <<>>
  /\ undoStack' # undoStack

\* C20: recording a frame empties the redo stack and puts the frame on top of
\* the undo stack, the oldest frame leaving when the stack would exceed
\* historyLimit; undoDepth never exceeds the limit; undo and redo on an empty
\* stack change nothing.
C20_HistoryIsBounded ==
  [][/\ Len(undoStack') <= HistoryLimit
     /\ Records => redoStack' = <<>> /\ Recorded(undoStack, undoStack', HistoryLimit)
     /\ LET h == [undoStack |-> undoStack, redoStack |-> redoStack]
            frame == [label |-> "probe", before |-> <<>>, after |-> <<>>, at |-> clock]
            p == historyPush(h, frame, HistoryLimit)
        IN  /\ p.redoStack = <<>>
            /\ Recorded(undoStack, p.undoStack, HistoryLimit)
            /\ Last(p.undoStack) = frame
            /\ undoStack = <<>> => historyUndo(h) = h /\ undo(Cur) = Cur
            /\ redoStack = <<>> => historyRedo(h) = h /\ redo(Cur) = Cur]_vars

\* the frame of the creation has left the full stack when the deletion was
\* recorded
C20_Witness ==
  /\ call.op = "keyDown"
  /\ Len(undoStack) = HistoryLimit
  /\ undoStack[1].label = "move-selection:keyboard"
  /\ Last(undoStack).label = "delete-selection"
  /\ redoStack = <<>>

----------------------------------------------------------------------------
(* Abandoning an interaction *)

Escape == Key("Escape", FALSE, FALSE)

SameHistory(r) == r.undoStack = undoStack /\ r.redoStack = redoStack

\* the one frame a pointerDown can record: the duplication that opens an
\* alt-drag, taken from the entities as they are at that pointerDown
OpensAltDrag(r) ==
  /\ r.interaction.mode = "dragging-selection"
  /\ r.redoStack = <<>>
  /\ Recorded(undoStack, r.undoStack, HistoryLimit)
  /\ Last(r.undoStack).label = "duplicate:alt-drag"
  /\ Last(r.undoStack).before = sortedDrawings(Cur)

\* C21: abandoning a Creating, Marquee or DraggingSelection interaction by
\* Escape or by another pointerDown leaves the engine Idle (or in the new
\* interaction) and records no frame for the abandoned attempt: an abandoned
\* Creating adds no entity, and the abandonment changes neither history depth.
C21_AbandonRecordsNothing ==
  interaction.mode # "idle" =>
    /\ LET r == keyDown(Cur, Escape, clock)
       IN  /\ r.interaction = Idle
           /\ SameHistory(r)
           /\ r.drawings = drawings
    /\ \A input \in PointerInputs :
         LET r == pointerDown(Cur, input, clock)
         IN  /\ r = pointerDown([Cur EXCEPT !.interaction = Idle], input, clock)
             /\ SameHistory(r) \/ OpensAltDrag(r)
             /\ interaction.mode = "creating" =>
                  SameHistory(r) /\ r.drawings = drawings

\* Escape has ended the creation of a trend line
C21_Witness ==
  /\ call.op = "keyDown"
  /\ call.from = "creating"
  /\ call.notified = <<"keyboard">>
  /\ activeTool = "trend_line"
  /\ interaction = Idle
  /\ drawings = <<>>
  /\ undoStack = <<>>

----------------------------------------------------------------------------
(* Locked entities: saved lines are imported, selected, locked and unlocked,
   dragged and nudged *)

MaxLockRevision == 5

LockDowns ==
  {Pointer(Pt(0, 0), ChartView, Plain), Pointer(Pt(32, 8), ChartView, Plain),
   Pointer(Pt(48, 16), ChartView, Plain)}

LockMoves == {Pointer(Pt(16, 0), ChartView, Plain), Pointer(Pt(16, -8), ChartView, Plain)}

NextLock ==
  \/ Within(MaxLockRevision) /\ ImportSnapshot(SavedLines)
  \/ Within(MaxLockRevision) /\ SelectAll
  \/ \E input \in LockDowns : Within(MaxLockRevision) /\ PointerDown(input)
  \/ \E input \in LockMoves : Within(MaxLockRevision) /\ PointerMove(input)
  \/ \E input \in LockMoves : Within(MaxLockRevision) /\ PointerUp(input)
  \/ \E ids \in SingleIds(Cur), locked \in BOOLEAN :
       Within(MaxLockRevision) /\ SetLocked(ids, locked)
  \/ Within(MaxLockRevision) /\ KeyDown(ArrowRight)

SpecLock == Init /\ [][NextLock]_vars

LockedIds == {drawings[i].id : i \in {k \in 1..Len(drawings) : drawings[k].locked}}

\* C22: a pointer drag and an arrow-key nudge never change the points of a
\* locked entity, selected or not, locked before or after the drag began;
\* locked entities are still selected by a click, a marquee and selectAll, and
\* deleteSelection removes them.
C22_LockedStayInPlace ==
  [][/\ call'.op \in {"pointerMove", "keyDown"} =>
          \A i \in 1..Len(drawings) :
            drawings[i].locked =>
              /\ MapHas(drawings', drawings[i].id)
              /\ MapGet(drawings', drawings[i].id).points = drawings[i].points
     /\ LockedIds \subseteq SelectedIds(selectAll(Cur))
     /\ \A input \in LockDowns :
          (activeTool = "cursor" /\ HitUnder(input).kind # "null") =>
            HitUnder(input).id \in SelectedIds(pointerDown(Cur, input, clock))
     /\ interaction.mode = "marquee" =>
          \A input \in LockMoves, i \in 1..Len(drawings) :
            (/\ drawings[i].locked
             /\ FitsMarquee(drawings[i], interaction.start, toPoint(Cur, input),
                             input.viewport)) =>
              drawings[i].id \in SelectedIds(pointerMove(Cur, input, clock))
     /\ LockedIds \cap SelectedIds(Cur) \cap Ids(deleteSelection(Cur, clock).drawings) = {}]_vars

\* the dragged line was locked after the drag began, and the pointer has moved
C22_Witness ==
  /\ call.op = "pointerMove"
  /\ interaction.mode = "dragging-selection"
  /\ \E k \in 1..Len(interaction.originPoints) :
       /\ interaction.originPoints[k].id = 11
       /\ MapGet(drawings, 11).locked
       /\ MapGet(drawings, 11).points = interaction.originPoints[k].points
  /\ toPoint(Cur, Pointer(Pt(16, 0), ChartView, Plain)) # interaction.start
  /\ SelectedIds(Cur) = {11, 12}

----------------------------------------------------------------------------
(* Selecting changes no entity and no history *)

\* the step only selects: selectAll, a cursor pointerDown without alt, the
\* pointerUp that completes a click, a pointerMove or pointerUp of a marquee
OnlySelects ==
  \/ call'.op \in {"selectAll", "clearSelection"}
  \/ call'.op = "pointerDown" /\ activeTool = "cursor"
  \/ call'.op = "pointerUp" /\ call.op = "pointerDown" /\ activeTool = "cursor"
  \/ call'.op \in {"pointerMove", "pointerUp"} /\ interaction.mode = "marquee"

\* C23: the operations that only change the selection leave the entity list
\* and both history depths unchanged; pointerUp in Marquee returns to Idle and
\* keeps the selection computed by the last move.
C23_SelectingKeepsEntities ==
  [][/\ OnlySelects =>
          /\ drawings' = drawings
          /\ undoStack' = undoStack
          /\ redoStack' = redoStack
     /\ (call'.op = "pointerUp" /\ interaction.mode = "marquee") =>
          /\ interaction' = Idle
          /\ selection' = selection
          /\ primaryId' = primaryId
     /\ LET r == clearSelection(Cur)
        IN  r.drawings = drawings /\ SameHistory(r) /\ r.selection = <<>>
     /\ \A input \in PointerInputs :
          (activeTool = "cursor" /\ ~input.altKey) =>
            LET r == pointerDown(Cur, input, clock)
            IN  r.drawings = drawings /\ SameHistory(r)]_vars

\* a marquee that selected the locked ray has ended
C23_Witness ==
  /\ call.op = "pointerUp"
  /\ call.from = "marquee"
  /\ interaction = Idle
  /\ selection = <<12>>
  /\ primaryId = 12
  /\ Len(drawings) = 2
  /\ undoStack = <<>>

----------------------------------------------------------------------------
(* Which operations add and remove entities *)

SameIds(r) == Ids(r.drawings) = Ids(drawings)

\* the keys that neither delete, duplicate, undo nor redo
QuietKeys ==
  {Escape, ArrowRight, Key("ArrowDown", TRUE, FALSE), Key("ArrowLeft", FALSE, FALSE),
   Key("ArrowUp", FALSE, FALSE), Key("a", TRUE, FALSE), Key("x", FALSE, FALSE)}

\* C24: the set of entity ids changes only through a creation commit on
\* pointerUp, duplicateSelection or alt-drag duplication, deleteSelection,
\* undo, redo and importSnapshot; setTool, setOptions, registerTool,
\* pointerMove, Escape, selectAll, clearSelection, setVisibility, setLocked,
\* bringToFront, sendToBack, the arrow keys, reportFrame, getState and
\* exportSnapshot leave it unchanged.
C24_OnlyListedOperationsChangeIds ==
  /\ \A tool \in ToolChoices : SameIds(setTool(Cur, tool))
  /\ \A o \in OptionChoices : SameIds(setOptions(Cur, o))
  /\ \A definition \in CustomTools : SameIds(registerTool(Cur, definition))
  /\ \A input \in PlainInputs : SameIds(pointerMove(Cur, input, clock))
  /\ \A input \in PointerInputs :
       ~(activeTool = "cursor" /\ input.altKey) => SameIds(pointerDown(Cur, input, clock))
  /\ \A input \in PlainInputs :
       interaction.mode # "creating" => SameIds(pointerUp(Cur, input, clock))
  /\ \A input \in QuietKeys : SameIds(keyDown(Cur, input, clock))
  /\ SameIds(selectAll(Cur))
  /\ SameIds(clearSelection(Cur))
  /\ \A ids \in SingleIds(Cur), flag \in BOOLEAN :
       /\ SameIds(setVisibility(Cur, ids, flag, clock))
       /\ SameIds(setLocked(Cur, ids, flag, clock))
  /\ \A ids \in IdLists(Cur) :
       /\ SameIds(bringToFront(Cur, ids, clock))
       /\ SameIds(sendToBack(Cur, ids, clock))
  /\ SameIds(reportFrame(Cur, 16))
  /\ Ids(stateView(Cur).drawings) = Ids(drawings)
  /\ Ids(exportSnapshot(Cur).drawings) = Ids(drawings)

\* an entity has been hidden, and both saved lines are still there
C24_Witness ==
  /\ call.op = "setVisibility"
  /\ Ids(drawings) = {11, 12}
  /\ \E i \in 1..Len(drawings) : ~drawings[i].visible

----------------------------------------------------------------------------
(* The hit query of the cursor: a ray and a diagonal line that crosses the
   ray's extension are imported, hidden and shown, and clicked *)

MaxTopRevision == 4

\* the ray goes up from (32, 0) through (32, 8); the diagonal crosses its
\* extension at (32, 32)
SavedCross ==
  Snapshot("1", << Entity(32, "trend_line", <<Pt(16, 16), Pt(48, 48)>>, 0, FALSE),
                   Entity(31, "ray", <<Pt(32, 0), Pt(32, 8)>>, 1, FALSE) >>,
           "cursor", "weak")

TopDowns ==
  {Pointer(p, ChartView, m) :
     p \in {Pt(32, 8), Pt(32, 16), Pt(32, 32), Pt(48, 48), Pt(0, 48)},
     m \in {Plain, Touch}}

TopUps == {Pointer(Pt(32, 16), ChartView, Plain)}

NextTop ==
  \/ Within(MaxTopRevision) /\ ImportSnapshot(SavedCross)
  \/ \E ids \in SingleIds(Cur), visible \in BOOLEAN :
       Within(MaxTopRevision) /\ SetVisibility(ids, visible)
  \/ \E input \in TopDowns : Within(MaxTopRevision) /\ PointerDown(input)
  \/ \E input \in TopUps : Within(MaxTopRevision) /\ PointerUp(input)

SpecTop == Init /\ [][NextTop]_vars

\* the visible entities whose geometry the pointer of input is on, within
\* the tolerance of its pointer type
Matching(input) ==
  LET point == toPoint(Cur, input)
      tolerance == hitTolerance(Cur, input)
  IN  {drawings[i].id : i \in {k \in 1..Len(drawings) :
         /\ drawings[k].visible
         /\ \/ FirstHandle(drawings[k].points, 0, point, input.viewport, tolerance) >= 0
            \/ BodyHit(drawings[k], point, input.viewport, tolerance)}}

\* the index of the last rebuild does not hold the pointer for entity id
OutsideIndex(input, id) ==
  id \notin queryPoint(IndexItems(sortedDrawings(Cur), input.viewport,
                                  hitTolerance(Cur, input)),
                       input.logical, input.price)

\* C25: the hit query of a cursor pointerDown returns a hit if and only if a
\* visible entity's exact geometry test matches at the pointer with the
\* event's tolerance: a hidden entity is never returned, and a matching entity
\* the index candidates leave out is found by the full scan.
C25_HitIffVisibleMatch ==
  \A input \in TopDowns :
    LET hit == HitUnder(input)
    IN  /\ (hit.kind # "null") <=> (Matching(input) # {})
        /\ hit.kind # "null" => hit.id \in Matching(input)

\* the click on the ray's extension, outside the ray's index box and inside
\* the diagonal's, has found the ray
C25_Witness ==
  /\ call.op = "pointerDown"
  /\ interaction.mode = "dragging-selection"
  /\ interaction.start = Pt(32, 16)
  /\ selection = <<31>>
  /\ \E i \in 1..Len(drawings) : drawings[i].id = 32 /\ drawings[i].visible

\* C26: when several visible entities match at the pointer, the hit query
\* returns the one with the highest zIndex, whatever the tools and whatever
\* the index holds.
C26_TopMostMatchWins ==
  \A input \in TopDowns :
    LET hit == HitUnder(input)
    IN  hit.kind # "null" =>
          \A id \in Matching(input) :
            MapGet(drawings, id).zIndex <= MapGet(drawings, hit.id).zIndex

----------------------------------------------------------------------------
(* The interaction a cursor pointerDown starts *)

\* r selects an unlocked entity
SelectsUnlocked(r) ==
  \E id \in SelectedIds(r) : ~MapGet(r.drawings, id).locked

\* C27: a pointerDown with the cursor tool that hits an entity enters
\* DraggingSelection exactly when the button is not the right one, shift is
\* not held and a selected entity is unlocked, and is Idle otherwise; one that
\* hits nothing enters Marquee with start = current = the pointer point, the
\* selection cleared without shift and kept as the marquee base with shift.
C27_CursorDownStarts ==
  \A input \in PointerInputs :
    activeTool = "cursor" =>
      LET r == pointerDown(Cur, input, clock)
          point == toPoint(Cur, input)
      IN  IF HitUnder(input).kind # "null"
          THEN IF input.button # 2 /\ ~input.shiftKey /\ SelectsUnlocked(r)
               THEN /\ r.interaction.mode = "dragging-selection"
                    /\ r.interaction.start = point
               ELSE r.interaction = Idle
          ELSE /\ r.interaction.mode = "marquee"
               /\ r.interaction.start = point
               /\ r.interaction.current = point
               /\ r.selection = (IF input.shiftKey THEN selection ELSE <<>>)
               /\ r.interaction.baseSelection = r.selection

\* a shift pointerDown beside the saved lines has kept both as the base
C27_Witness ==
  /\ call.op = "pointerDown"
  /\ interaction.mode = "marquee"
  /\ interaction.start = interaction.current
  /\ SeqToSet(interaction.baseSelection) = {11, 12}
  /\ selection = interaction.baseSelection

----------------------------------------------------------------------------
(* What a creation commit leaves behind *)

\* r is the state after a commit that added an entity to the current one
Commits(r) == r.nextId = nextId + 1 /\ MapHas(r.drawings, nextId)

\* the zIndex above every entity of list, 0 for the empty list
ZAbove(list) ==
  IF list = <<>> THEN 0
  ELSE 1 + CHOOSE z \in {list[i].zIndex : i \in 1..Len(list)} :
             \A i \in 1..Len(list) : list[i].zIndex <= z

\* the pointerUp that commits the gesture in progress adds one entity and
\* records it
CommitAddsOne ==
  interaction.mode = "creating" =>
    \A input \in DrawMoves :
      LET r == pointerUp(Cur, input, clock)
          entity == MapGet(r.drawings, nextId)
          frame == Last(r.undoStack)
      IN  Commits(r) =>
            /\ ~MapHas(drawings, nextId)
            /\ Len(r.drawings) = Len(drawings) + 1
            /\ SeqToSet(drawings) \subseteq SeqToSet(r.drawings)
            /\ entity.tool = activeTool
            /\ entity.visible
            /\ ~entity.locked
            /\ entity.zIndex = ZAbove(drawings)
            /\ r.selection = <<nextId>>
            /\ r.undoStack # <<>>
            /\ Len(r.undoStack) = Len(undoStack) + 1 \/ Len(undoStack) = Cur.historyLimit
            /\ \A i \in 1..(Len(r.undoStack) - 1) : r.undoStack[i] \in SeqToSet(undoStack)
            /\ frame.label = "create:" \o activeTool
            /\ frame.before = interaction.beforeSnapshot
            /\ r.redoStack = <<>>
            /\ r.interaction = Idle

\* the before list of a gesture is the entity list at its pointerDown, and no
\* other call changes it while the gesture lasts
BeforeIsAtDown ==
  interaction'.mode = "creating" =>
    IF call'.op = "pointerDown"
    THEN /\ Len(interaction'.beforeSnapshot) = Len(drawings)
         /\ SeqToSet(interaction'.beforeSnapshot) = SeqToSet(drawings)
    ELSE /\ interaction.mode = "creating"
         /\ interaction'.beforeSnapshot = interaction.beforeSnapshot

\* C28: a successful creation commit adds exactly one entity with a fresh id,
\* the active tool's id, visible, unlocked and with zIndex one above the
\* maximum (0 when there is no entity), selects exactly that entity, records
\* one history frame labeled create:<tool> whose before list is the entity
\* list at the gesture's pointerDown, empties the redo stack and returns the
\* interaction to Idle.
C28_CommitAddsOneEntity == []CommitAddsOne /\ [][BeforeIsAtDown]_vars

\* a second trend line has been committed above the first
C28_Witness ==
  /\ call.op = "pointerUp"
  /\ Ids(drawings) = {1, 2}
  /\ MapGet(drawings, 2).zIndex = 1
  /\ MapGet(drawings, 2).tool = "trend_line"
  /\ selection = <<2>>
  /\ Len(undoStack) = 2
  /\ Ids(Last(undoStack).before) = {1}
  /\ interaction = Idle

----------------------------------------------------------------------------
(* The end of a touch gesture that no pointerMove has promoted *)

\* the gesture in progress is still pending-hold
PendingHold == interaction.mode = "creating" /\ interaction.pendingHold

\* r has discarded the gesture: nothing created, nothing recorded, Idle
Discards(r) ==
  /\ r.drawings = drawings
  /\ r.nextId = nextId
  /\ SameHistory(r)
  /\ r.interaction = Idle

\* C29 as stated: a pointerUp in Creating while still pending-hold discards
\* the interaction (no entity, no history frame, Idle) whatever time has
\* elapsed since the pointerDown.
C29_PendingHoldAlwaysDiscards ==
  PendingHold =>
    \A input \in DrawMoves : Discards(pointerUp(Cur, input, clock))

\* C29, amended: a pointerUp in Creating while still pending-hold discards
\* the interaction when less than holdToDrawMs has elapsed since the
\* pointerDown; from holdToDrawMs on it ends the gesture as a promoted one.
C29_PendingHoldDiscardsEarly ==
  PendingHold =>
    \A input \in DrawMoves :
      LET r == pointerUp(Cur, input, clock)
      IN  IF clock - interaction.startedAt < opts.holdToDrawMs
          THEN Discards(r)
          ELSE r = pointerUp([Cur EXCEPT !.interaction.pendingHold = FALSE], input, clock)

\* a touch gesture with the trend line tool has been released 8 px away at
\* once, and nothing was drawn
C29_Witness ==
  /\ call.op = "pointerUp"
  /\ call.from = "creating"
  /\ call.notified = <<"pointer">>
  /\ activeTool = "trend_line"
  /\ clock = 0
  /\ drawings = <<>>
  /\ undoStack = <<>>
  /\ nextId = 1
  /\ interaction = Idle

----------------------------------------------------------------------------
(* Hold-to-draw: a touch gesture is provisional until it is held or moved *)

\* a pointerDown with a drawing tool starts Creating, pending-hold exactly for
\* touch input with a tool that is not continuous
DownStartsHold ==
  (activeTool # "cursor" /\ activeTool \in DOMAIN toolRegistry /\ opts.enableHoldToDraw) =>
    \A input \in DrawDowns :
      LET r == pointerDown(Cur, input, clock)
      IN  /\ r.interaction.mode = "creating"
          /\ r.interaction.pendingHold =
               (input.pointerType = "touch" /\ ~toolRegistry[activeTool].continuous)

\* a pointerMove of a pending-hold gesture is ignored before the hold duration
\* and within the tolerance, and ends pending-hold otherwise
MoveKeepsOrEndsHold ==
  PendingHold =>
    \A input \in DrawMoves :
      LET r == pointerMove(Cur, input, clock)
          dx == input.x - interaction.downScreen.x
          dy == input.y - interaction.downScreen.y
          px == opts.holdMoveTolerancePx
      IN  IF /\ clock - interaction.startedAt < opts.holdToDrawMs
             /\ dx * dx + dy * dy < px * px
          THEN /\ r.interaction = interaction
               /\ r.reasons = <<>>
               /\ r.drawings = drawings
          ELSE /\ r.interaction.mode = "creating"
               /\ ~r.interaction.pendingHold

\* pending-hold is for touch gestures of tools that are not continuous
HoldIsTouchOnly ==
  PendingHold => interaction.pointerType = "touch" /\ ~interaction.tool.continuous

\* once ended, pending-hold stays ended until the next pointerDown
HoldEndsForGood ==
  (/\ interaction.mode = "creating"
   /\ ~interaction.pendingHold
   /\ interaction'.mode = "creating"
   /\ call'.op # "pointerDown") => ~interaction'.pendingHold

\* C30: a pointerDown with a non-continuous drawing tool, touch input and
\* hold-to-draw enabled starts Creating in pending-hold; while pending-hold, a
\* pointerMove before the hold duration and within the movement tolerance
\* captures no point, notifies nobody and leaves the interaction unchanged;
\* the first pointerMove at or beyond either threshold ends pending-hold for
\* the rest of the gesture; mouse or pen input and continuous tools never
\* enter pending-hold.
C30_HoldToDraw ==
  /\ [](DownStartsHold /\ MoveKeepsOrEndsHold /\ HoldIsTouchOnly)
  /\ [][HoldEndsForGood]_vars

\* a pointerMove has been ignored: the touch gesture is still pending-hold
\* with the one point of its pointerDown
C30_Witness ==
  /\ call.op = "pointerMove"
  /\ call.from = "creating"
  /\ call.notified = <<>>
  /\ PendingHold
  /\ interaction.pointerType = "touch"
  /\ interaction.points = <<Pt(0, 0)>>

----------------------------------------------------------------------------
(* The frame a drag records when the pointer is released *)

\* the points of each entity of list
PointsOf(list) == {<<list[i].id, list[i].points>> : i \in 1..Len(list)}

\* r has recorded the drag on top of the history
RecordsMove(r) ==
  /\ r.undoStack # undoStack
  /\ r.undoStack # <<>>
  /\ Last(r.undoStack).label = "move-selection:pointer"
  /\ Last(r.undoStack).before = interaction.beforeSnapshot

\* C31: pointerUp in DraggingSelection returns to Idle and records a frame
\* labeled move-selection:pointer exactly when some entity changed between
\* the snapshot taken at the drag's pointerDown and the state at pointerUp: a
\* drag that leaves every entity's points as they were records no frame, one
\* that changed some entity's points records exactly one.
C31_DragRecordsIffChanged ==
  interaction.mode = "dragging-selection" =>
    \A input \in PlainInputs :
      LET r == pointerUp(Cur, input, clock)
      IN  /\ r.interaction = Idle
          /\ RecordsMove(r) <=> PointsOf(interaction.beforeSnapshot) # PointsOf(drawings)

----------------------------------------------------------------------------
(* Where a drag puts the entities *)

\* the inputs of a drag: the moves and, to come back, the down positions
DragMoves == LockMoves \cup LockDowns

\* the entry of entity id in the drag set, <<>> when it has none
OriginOf(id) ==
  LET o == interaction.originPoints
      at == {k \in 1..Len(o) : o[k].id = id}
  IN  IF at = {} THEN <<>> ELSE o[CHOOSE k \in at : TRUE].points

\* points moved by the pointer's way from start to point
MovedBy(points, start, point) ==
  [k \in 1..Len(points) |->
     Pt(points[k].logical + point.logical - start.logical,
        points[k].price + point.price - start.price)]

\* the drag set holds the points the entities had at the drag's pointerDown
OriginsAreAtDown ==
  LET o == interaction.originPoints
      before == interaction.beforeSnapshot
  IN  \A k \in 1..Len(o) :
        /\ MapHas(before, o[k].id)
        /\ o[k].points = MapGet(before, o[k].id).points

\* C32: during DraggingSelection, after every pointerMove each draggable
\* (unlocked) entity of the drag set has the points it had at the drag's
\* pointerDown translated by the current pointer point minus the pointer-down
\* point, whatever moves came before; moving back to the down point restores
\* the original points; every other entity is unchanged.
C32_DragTranslatesOrigins ==
  interaction.mode = "dragging-selection" =>
    /\ OriginsAreAtDown
    /\ \A input \in DragMoves :
          LET r == pointerMove(Cur, input, clock)
              point == toPoint(Cur, input)
          IN  /\ r.interaction = interaction
              /\ Len(r.drawings) = Len(drawings)
              /\ \A i \in 1..Len(drawings) :
                    LET e == drawings[i]
                    IN  IF OriginOf(e.id) # <<>> /\ ~e.locked
                        THEN /\ r.drawings[i].id = e.id
                             /\ r.drawings[i].points =
                                  MovedBy(OriginOf(e.id), interaction.start, point)
                             /\ point = interaction.start =>
                                  r.drawings[i].points = MapGet(interaction.beforeSnapshot, e.id).points
                        ELSE r.drawings[i] = e

\* the line dragged from (0, 0) is where two moves, or one, have put it
C32_Witness ==
  /\ call.op = "pointerMove"
  /\ call.from = "dragging-selection"
  /\ interaction.mode = "dragging-selection"
  /\ interaction.start = Pt(0, 0)
  /\ revision = 4
  /\ MapGet(drawings, 11).points = <<Pt(16, -8), Pt(48, -8)>>

----------------------------------------------------------------------------
(* What setVisibility and setLocked change *)

\* the visible and locked flags of each entity of list
FlagsOf(list) == {<<list[i].id, list[i].visible, list[i].locked>> : i \in 1..Len(list)}

\* r differs from the current state in nothing but the named flag, and the
\* updatedAt, of the entities ids lists; flagged tells the flag r gives them
OnlyFlags(r, ids, Flagged(_, _)) ==
  /\ Len(r.drawings) = Len(drawings)
  /\ \A i \in 1..Len(drawings) :
        IF Contains(ids, drawings[i].id)
        THEN /\ Flagged(r.drawings[i], drawings[i])
             /\ [r.drawings[i] EXCEPT !.updatedAt = 0, !.visible = TRUE, !.locked = FALSE]
                  = [drawings[i] EXCEPT !.updatedAt = 0, !.visible = TRUE, !.locked = FALSE]
        ELSE r.drawings[i] = drawings[i]
  /\ r.selection = selection
  /\ r.primaryId = primaryId
  /\ r.interaction = interaction

\* r has recorded one frame on top of the history, and undoing it gives the
\* entities the flags they have now
RecordsFlags(r, label) ==
  /\ r.undoStack # <<>>
  /\ r.undoStack # undoStack
  /\ Last(r.undoStack).label = label
  /\ r.redoStack = <<>>
  /\ FlagsOf(undo(r).drawings) = FlagsOf(drawings)

\* C33: setVisibility(ids, v) and setLocked(ids, l) with a non-empty id list
\* change only the visible (resp. locked) flag and updatedAt of the listed
\* existing entities, leave everything else, the selection and the
\* interaction as they are, and record one history frame whose undo restores
\* the previous flags (asked here only of a call that changes a flag).
C33_FlagsOnlyAndRecorded ==
  \A ids \in SingleIds(Cur) \ {<<>>}, flag \in BOOLEAN :
    LET v == setVisibility(Cur, ids, flag, clock)
        l == setLocked(Cur, ids, flag, clock)
        Shown(e, was) == e.visible = flag /\ e.locked = was.locked
        Locked(e, was) == e.locked = flag /\ e.visible = was.visible
    IN  /\ OnlyFlags(v, ids, Shown)
        /\ OnlyFlags(l, ids, Locked)
        /\ FlagsOf(v.drawings) # FlagsOf(drawings) => RecordsFlags(v, "visibility")
        /\ FlagsOf(l.drawings) # FlagsOf(drawings) => RecordsFlags(l, "lock")

----------------------------------------------------------------------------
(* The paint order bringToFront and sendToBack leave *)

\* in state r entity a paints above entity b
Above(r, a, b) == MapGet(r.drawings, a).zIndex > MapGet(r.drawings, b).zIndex

\* the entities of list but for their place in the paint order and their stamp
Unordered(list) ==
  {[list[i] EXCEPT !.zIndex = 0, !.updatedAt = 0] : i \in 1..Len(list)}

\* r has the entities of the current state, the listed ones in the order
\* given, and the unlisted ones in the order they had
KeepsOrders(r, ids) ==
  LET all == Ids(drawings)
      listed == SeqToSet(ids) \cap all
  IN  /\ Unordered(r.drawings) = Unordered(drawings)
      /\ Len(r.drawings) = Len(drawings)
      /\ \A i, j \in 1..Len(ids) :
            (i < j /\ ids[i] # ids[j] /\ {ids[i], ids[j]} \subseteq all) =>
              Above(r, ids[j], ids[i])
      /\ \A a, b \in all \ listed : Above(r, a, b) <=> Above(Cur, a, b)

\* C34: after bringToFront(ids) every listed existing entity paints above
\* every unlisted one, the listed ones are ordered as given and the unlisted
\* ones keep their relative order; sendToBack(ids) puts the listed ones below
\* all unlisted ones, in the order given; points, styles, flags and the id set
\* are unchanged.
C34_ReorderPutsListedOnOneSide ==
  \A ids \in IdLists(Cur) \ {<<>>} :
    LET front == bringToFront(Cur, ids, clock)
        back == sendToBack(Cur, ids, clock)
        all == Ids(drawings)
        listed == SeqToSet(ids) \cap all
    IN  /\ KeepsOrders(front, ids)
        /\ KeepsOrders(back, ids)
        /\ \A a \in listed, b \in all \ listed : Above(front, a, b) /\ Above(back, b, a)

\* the trend line, imported below the ray, has been brought to the front
C34_Witness ==
  /\ call.op = "bringToFront"
  /\ call.notified = <<"drawings">>
  /\ Ids(drawings) = {11, 12}
  /\ Above(Cur, 11, 12)
  /\ Last(undoStack).label = "bring-to-front"
  /\ ~Above([drawings |-> Last(undoStack).before], 11, 12)

----------------------------------------------------------------------------
(* The candidates of the spatial index *)

\* C35: right after the index is rebuilt with a viewport and a tolerance,
\* every visible entity whose exact hit test matches at a point under that
\* viewport and tolerance is among the ids queryPoint returns for the point.
C35_IndexHoldsEveryMatch ==
  \A input \in TopDowns :
    \A id \in Matching(input) : ~OutsideIndex(input, id)

----------------------------------------------------------------------------
(* The two history stacks together *)

\* undoDepth + redoDepth of r
Depth(r) == Len(r.undoStack) + Len(r.redoStack)

\* r is the current state with the top frame of stack from moved on top of
\* stack to, or the current state when from is empty
MovesOne(from, to, rfrom, rto) ==
  IF from = <<>> THEN rfrom = from /\ rto = to
  ELSE /\ rfrom = SubSeq(from, 1, Len(from) - 1)
       /\ rto = Append(to, Last(from))

\* C36: in every reachable state undoDepth + redoDepth does not exceed the
\* historyLimit given at construction; undo and redo each move exactly one
\* frame between the two stacks and leave the sum unchanged, so that redo
\* never pushes the undo stack past the limit.
C36_DepthsWithinLimit ==
  LET u == undo(Cur)
      r == redo(Cur)
  IN  /\ Depth(Cur) <= HistoryLimit
      /\ MovesOne(undoStack, redoStack, u.undoStack, u.redoStack)
      /\ MovesOne(redoStack, undoStack, r.redoStack, r.undoStack)
      /\ Depth(u) = Depth(Cur)
      /\ Depth(r) = Depth(Cur)
      /\ Len(r.undoStack) <= HistoryLimit

\* an undo has moved a frame of the full history to the redo stack
C36_Witness ==
  /\ call.op = "undo"
  /\ redoStack # <<>>
  /\ undoStack # <<>>
  /\ Depth(Cur) = HistoryLimit

----------------------------------------------------------------------------
(* The paint order is strict *)

\* the zIndex values of list are non-negative and pairwise distinct
ZStrict(list) ==
  /\ \A i \in 1..Len(list) : list[i].zIndex >= 0
  /\ \A i, j \in 1..Len(list) : list[i].zIndex = list[j].zIndex => i = j

\* C37: in every reachable state, and in the state each operation would leave
\* next, the zIndex values of the entities are pairwise distinct non-negative
\* integers: across create, duplicate, delete (which may leave gaps), drag,
\* nudge, reorder, undo, redo and import.
C37_PaintOrderIsStrict ==
  /\ ZStrict(drawings)
  /\ ZStrict(duplicateSelection(Cur, clock).drawings)
  /\ ZStrict(deleteSelection(Cur, clock).drawings)
  /\ ZStrict(undo(Cur).drawings)
  /\ ZStrict(redo(Cur).drawings)
  /\ \A ids \in IdLists(Cur) :
        /\ ZStrict(bringToFront(Cur, ids, clock).drawings)
        /\ ZStrict(sendToBack(Cur, ids, clock).drawings)
  /\ \A input \in PlainInputs :
        /\ ZStrict(pointerMove(Cur, input, clock).drawings)
        /\ ZStrict(pointerUp(Cur, input, clock).drawings)
  /\ \A input \in PointerInputs : ZStrict(pointerDown(Cur, input, clock).drawings)
  /\ \A snapshot \in ImportChoices : ZStrict(importSnapshot(Cur, snapshot).drawings)

\* the deletion of the trend line has left the ray alone, above a gap
C37_Witness ==
  /\ call.op \in {"deleteSelection", "keyDown"}
  /\ Len(drawings) = 1
  /\ drawings[1].id = 12
  /\ drawings[1].zIndex = 1
  /\ Len(undoStack) = 1
  /\ Last(undoStack).label = "delete-selection"

----------------------------------------------------------------------------
(* The active tool and the registry *)

\* a snapshot exported by a host that had registered the risk tool and made
\* it the active one
SavedRisk ==
  Snapshot("1", << Entity(41, "risk_position", <<Pt(0, 0), Pt(16, 8)>>, 0, FALSE) >>,
           "risk_position", "weak")

\* the tool of r is registered, and a pointerDown runs the cursor handling or
\* starts Creating
ToolIsRegistered(r) ==
  /\ r.activeTool \in DOMAIN r.toolRegistry
  /\ \A input \in PointerInputs :
        LET mode == pointerDown(r, input, clock).interaction.mode
        IN  IF r.activeTool = "cursor"
            THEN mode \in {"idle", "dragging-selection", "marquee"}
            ELSE mode = "creating"

\* C38: in every reachable state the active tool is an id of the tool
\* registry, importSnapshot restoring prefs.activeTool included, so that every
\* pointerDown runs the cursor handling or starts a Creating interaction.
C38_ActiveToolIsRegistered ==
  /\ ToolIsRegistered(Cur)
  /\ \A snapshot \in ImportChoices \cup {SavedRisk} :
        ToolIsRegistered(importSnapshot(Cur, snapshot))

----------------------------------------------------------------------------
(* The chain of history frames, in a session where keys are pressed and
   undo is asked for while a drag is in progress *)

MaxChainRevision == 6

ChainInputs == {Pointer(p, ChartView, Plain) : p \in {Pt(0, 0), Pt(16, 0)}}

ChainKeys == {Escape, ArrowRight}

NextChain ==
  \/ Tick
  \/ Within(MaxChainRevision) /\ ImportSnapshot(SavedLines)
  \/ \E input \in ChainInputs : Within(MaxChainRevision) /\ PointerDown(input)
  \/ \E input \in ChainInputs : Within(MaxChainRevision) /\ PointerMove(input)
  \/ \E input \in ChainInputs : Within(MaxChainRevision) /\ PointerUp(input)
  \/ \E input \in ChainKeys : Within(MaxChainRevision) /\ KeyDown(input)
  \/ Within(MaxChainRevision) /\ Undo

SpecChain == Init /\ [][NextChain]_vars

\* C39: in every reachable state, for each pair of adjacent frames of the undo
\* stack the later frame's before list equals the earlier frame's after list
\* (same ids, points, flags and order, zIndex up to renumbering), whatever
\* the interleaving of gestures, keys and calls.
C39_FramesChain ==
  \A k \in 1..(Len(undoStack) - 1) :
    SameEntities(undoStack[k].after, undoStack[k + 1].before)

----------------------------------------------------------------------------
(* Coalesced notifications, with a host that runs every frame it is asked for *)

MaxFlushRevision == 4

\* the most notify calls of a behaviour: those of the host's calls and those
\* of the callbacks
MaxNotified == 8

NextFlush ==
  \/ \E kind \in SubscriberKinds : Subscribe(kind)
  \/ Within(MaxFlushRevision) /\ SetOptions([emitOnAnimationFrame |-> TRUE])
  \/ Within(MaxFlushRevision) /\ SetTool("trend_line")
  \/ Within(MaxFlushRevision) /\ SelectAll
  \/ Frame

\* the host's scheduler eventually runs the callback it was handed
SpecFlush == Init /\ [][NextFlush]_vars /\ WF_vars(Frame)

Coalescing == opts.emitOnAnimationFrame

\* a notification under coalescing is the one flush that was pending, and it
\* delivers a revision newer than the last one delivered
FlushAfterMutation ==
  (Coalescing /\ emitted' # emitted) =>
    /\ call'.op = "requestAnimationFrame"
    /\ scheduled = 1
    /\ emitted'.count = emitted.count + 1
    /\ emitted'.revision = revision
    /\ emitted.revision < revision

\* C40: with coalescing enabled and a scheduler that eventually runs every
\* scheduled callback, every mutation is eventually followed by a
\* notification whose state has a revision at least that of the mutation; at
\* most one flush is pending at any time; once a flush has run no
\* notification is emitted until the next mutation.
C40_EveryMutationIsFlushed ==
  /\ \A k \in 0..MaxNotified : (Coalescing /\ revision = k) ~> (emitted.revision >= k)
  /\ [](scheduled <= 1 /\ revision <= MaxNotified)
  /\ [](Coalescing => (emitQueued <=> scheduled = 1))
  /\ [][FlushAfterMutation]_vars

\* a frame has delivered the two mutations made since coalescing was enabled
C40_Witness ==
  /\ call.op = "requestAnimationFrame"
  /\ Coalescing
  /\ scheduled = 0
  /\ ~emitQueued
  /\ revision = 3
  /\ emitted.count = 1
  /\ emitted.revision = 3
  /\ activeTool = "trend_line"

====
